---- MODULE Spec2Model ----
(***************************************************************************)
(* Model of the Ansible Docker connector (src/manba/testSSH/test.py):      *)
(* the package-manager detection cascade, the SSH provisioning pipeline    *)
(* of setup_ssh_in_container and the fleet loop of prepare_all_containers. *)
(* Every remote command (container.exec_run) is one step whose result is   *)
(* chosen by the environment; strings are sequences of characters.         *)
(***************************************************************************)
EXTENDS Integers, Sequences, FiniteSets, TLC

(***************************************************************************)
(* Bounds of the model.                                                    *)
(***************************************************************************)
\* longest list of requested container names given to prepare_all_containers
MaxNames == 2
\* number of direct calls of setup_ssh_in_container in one behaviour
MaxCalls == 2

\* the container names a caller may ask for
Names == {"web", "db"}

\* Python's None, as returned by the detection helpers
None == "None"

(***************************************************************************)
(* Strings.                                                                *)
(***************************************************************************)
UpperChars == <<"A","B","C","D","E","F","G","H","I","J","K","L","M",
                "N","O","P","Q","R","S","T","U","V","W","X","Y","Z">>

LowerChars == <<"a","b","c","d","e","f","g","h","i","j","k","l","m",
                "n","o","p","q","r","s","t","u","v","w","x","y","z">>

\* str.lower() on one character
LowerChar(c) ==
    IF \E n \in 1..26 : UpperChars[n] = c
    THEN LowerChars[CHOOSE n \in 1..26 : UpperChars[n] = c]
    ELSE c

\* str.lower()
Lower(s) == [n \in 1..Len(s) |-> LowerChar(s[n])]

\* Python's "k in s" on strings: k occurs in s as a contiguous substring
Contains(s, k) ==
    \E n \in 1..(Len(s) - Len(k) + 1) : SubSeq(s, n, n + Len(k) - 1) = k

s_alpine      == <<"a","l","p","i","n","e">>
s_busybox     == <<"b","u","s","y","b","o","x">>
s_ubuntu      == <<"u","b","u","n","t","u">>
s_debian      == <<"d","e","b","i","a","n">>
s_centos      == <<"c","e","n","t","o","s">>
s_rhel        == <<"r","h","e","l">>
s_red_hat     == <<"r","e","d"," ","h","a","t">>
s_rockylinux  == <<"r","o","c","k","y","l","i","n","u","x">>
s_oraclelinux == <<"o","r","a","c","l","e","l","i","n","u","x">>
s_fedora      == <<"f","e","d","o","r","a">>
s_suse        == <<"s","u","s","e">>
s_opensuse    == <<"o","p","e","n","s","u","s","e">>
s_arch        == <<"a","r","c","h">>
s_archlinux   == <<"a","r","c","h","l","i","n","u","x">>

(***************************************************************************)
(* Tables of the source.                                                   *)
(***************************************************************************)
\* _check_package_managers_directly: the managers probed, in order
package_managers == <<"apk", "apt", "yum", "dnf", "zypper", "pacman">>

\* _check_os_release_files: the files read, in order
release_files ==
    << <<"/","e","t","c","/","o","s","-","r","e","l","e","a","s","e">>,
       <<"/","e","t","c","/","l","s","b","-","r","e","l","e","a","s","e">>,
       <<"/","e","t","c","/","r","e","d","h","a","t","-","r","e","l","e","a","s","e">>,
       <<"/","e","t","c","/","d","e","b","i","a","n","_","v","e","r","s","i","o","n">>,
       <<"/","e","t","c","/","a","l","p","i","n","e","-","r","e","l","e","a","s","e">>,
       <<"/","e","t","c","/","c","e","n","t","o","s","-","r","e","l","e","a","s","e">> >>

\* _infer_from_available_commands: managers of the config paths, in order
config_files == <<"apk", "apt", "yum", "dnf", "zypper">>

\* _infer_from_available_commands: managers of the state directories, in order
dir_checks == <<"apk", "apt", "yum", "dnf">>

\* INSTALL_TEMPLATES with a profile for pacman
INSTALL_TEMPLATES_with_pacman ==
    [ apk    |-> <<"rc-update add sshd", "ssh-keygen -A", "mkdir -p /var/run/sshd">>,
      apt    |-> <<"mkdir -p /var/run/sshd", "systemctl enable ssh || update-rc.d ssh enable || true">>,
      yum    |-> <<"systemctl enable sshd || true", "ssh-keygen -A -t rsa">>,
      dnf    |-> <<"systemctl enable sshd || true", "ssh-keygen -A -t rsa">>,
      zypper |-> <<"systemctl enable sshd || true", "ssh-keygen -A">>,
      pacman |-> <<"systemctl enable sshd || true", "ssh-keygen -A">> ]

\* SSHInstaller.INSTALL_TEMPLATES: the post_install commands of each profile
INSTALL_TEMPLATES ==
    [ apk    |-> <<"rc-update add sshd", "ssh-keygen -A", "mkdir -p /var/run/sshd">>,
      apt    |-> <<"mkdir -p /var/run/sshd", "systemctl enable ssh || update-rc.d ssh enable || true">>,
      yum    |-> <<"systemctl enable sshd || true", "ssh-keygen -A -t rsa">>,
      dnf    |-> <<"systemctl enable sshd || true", "ssh-keygen -A -t rsa">>,
      zypper |-> <<"systemctl enable sshd || true", "ssh-keygen -A">> ]

\* _install_ssh_universal: the one-shot installers, in order
approaches == <<"apt", "yum", "apk", "dnf">>

\* _install_ssh_universal with command lines that do not end in "|| true"
approaches_without_suffix == [n \in 1..Len(approaches) |-> FALSE]

\* _install_ssh_universal: whether the command line of an approach ends in
\* "|| true" (each of them does)
approaches_or_true == [n \in 1..Len(approaches) |-> TRUE]

\* _setup_ssh_user: the user-configuration commands, in order
create_user_cmds ==
    <<"useradd", "chpasswd", "sudoers", "mkdir .ssh", "chown .ssh", "chmod 700 .ssh">>

\* _start_ssh_service: the service-start commands, in order
start_commands ==
    <<"/usr/sbin/sshd -D &", "service ssh start", "systemctl start sshd",
      "rc-service sshd start", "/etc/init.d/ssh start">>

(***************************************************************************)
(* Results of container.exec_run: a CommandResult, or a raised error.      *)
(***************************************************************************)
Empty == <<>>

Result(code, out) == [raised |-> FALSE, exit_code |-> code, output |-> out]

Raised == [raised |-> TRUE, exit_code |-> 1, output |-> Empty]

\* how a command ended, as its caller can tell
Out(r) ==
    IF r.raised THEN "raised"
    ELSE IF r.exit_code = 0 THEN "ok" ELSE "nonzero"

\* what a command that prints something unrelated prints
SomeText == <<"o","k">>

\* what can happen to a one-shot install command line in a container: the
\* installer ran and succeeded, it failed or is not there, /bin/sh could not
\* be started, or exec_run raised
UniversalOutcomes == {"installed", "no_installer", "no_shell", "raised"}

\* the result of exec_run("/bin/sh -c '<installer> 2>/dev/null || true'"):
\* with the suffix the shell exits 0 whatever the installer did
universal_result(what, or_true) ==
    CASE what = "raised"       -> Raised
      [] what = "no_shell"     -> Result(127, SomeText)
      [] what = "installed"    -> Result(0, SomeText)
      [] what = "no_installer" -> IF or_true THEN Result(0, Empty) ELSE Result(1, Empty)

\* results of a command whose output is only tested for emptiness
ExecResults ==
    {Raised} \cup {Result(c, o) : c \in {0, 1}, o \in {Empty, SomeText}}

\* contents a release file may have
ReleaseContents ==
    { Empty,
      <<"g","e","n","t","o","o">>,
      <<"A","l","p","i","n","e">>,
      <<"I","D","=","u","b","u","n","t","u">>,
      <<"R","e","d"," ","H","a","t">>,
      <<"r","h","e","l"," ","f","e","d","o","r","a">>,
      <<"f","e","d","o","r","a"," ","s","u","s","e">>,
      <<"o","p","e","n","S","U","S","E">>,
      <<"A","r","c","h">>,
      <<"1","2",".","4">> }

ReleaseResults ==
    {Raised} \cup {Result(c, o) : c \in {0, 1}, o \in ReleaseContents}

\* container.image.tags as the runtime may report it
ImageTags ==
    { <<>>,
      << <<"a","l","p","i","n","e",":","3">> >>,
      << <<"b","u","s","y","b","o","x">> >>,
      << <<"U","b","u","n","t","u",":","2","2">> >>,
      << <<"r","o","c","k","y","l","i","n","u","x",":","9">> >>,
      << <<"f","e","d","o","r","a",":","3","9">> >>,
      << <<"o","p","e","n","s","u","s","e","/","l","e","a","p">> >>,
      << <<"a","r","c","h","l","i","n","u","x">> >>,
      << <<"f","e","d","o","r","a","-","s","u","s","e">> >>,
      << <<"m","y","a","p","p",":","1">> >> }

(***************************************************************************)
(* The decisions of the detection helpers.                                 *)
(***************************************************************************)
\* _check_os_release_files with the fedora branch ahead of the centos/rhel one
ClassifyReleaseFedoraFirst(output, release_file) ==
    LET content == Lower(output) IN
    IF Contains(content, s_alpine) \/ Contains(release_file, s_alpine) THEN "apk"
    ELSE IF Contains(content, s_ubuntu) \/ Contains(content, s_debian)
            \/ Contains(release_file, s_debian) THEN "apt"
    ELSE IF Contains(content, s_fedora) THEN "dnf"
    ELSE IF Contains(content, s_centos) \/ Contains(content, s_rhel)
            \/ Contains(content, s_red_hat) THEN "yum"
    ELSE IF Contains(content, s_suse) \/ Contains(content, s_opensuse) THEN "zypper"
    ELSE IF Contains(content, s_arch) THEN "pacman"
    ELSE None

\* _check_os_release_files with a test of the path for redhat as well
ClassifyReleaseRedhatPath(output, release_file) ==
    LET content == Lower(output) IN
    IF Contains(content, s_alpine) \/ Contains(release_file, s_alpine) THEN "apk"
    ELSE IF Contains(content, s_ubuntu) \/ Contains(content, s_debian)
            \/ Contains(release_file, s_debian) THEN "apt"
    ELSE IF Contains(content, s_centos) \/ Contains(content, s_rhel)
            \/ Contains(content, s_red_hat)
            \/ Contains(release_file, <<"r","e","d","h","a","t">>) THEN "yum"
    ELSE IF Contains(content, s_fedora) THEN "dnf"
    ELSE IF Contains(content, s_suse) \/ Contains(content, s_opensuse) THEN "zypper"
    ELSE IF Contains(content, s_arch) THEN "pacman"
    ELSE None

\* _check_os_release_files with the suse branch ahead of the fedora one
ClassifyReleaseSuseFirst(output, release_file) ==
    LET content == Lower(output) IN
    IF Contains(content, s_alpine) \/ Contains(release_file, s_alpine) THEN "apk"
    ELSE IF Contains(content, s_ubuntu) \/ Contains(content, s_debian)
            \/ Contains(release_file, s_debian) THEN "apt"
    ELSE IF Contains(content, s_centos) \/ Contains(content, s_rhel)
            \/ Contains(content, s_red_hat) THEN "yum"
    ELSE IF Contains(content, s_suse) \/ Contains(content, s_opensuse) THEN "zypper"
    ELSE IF Contains(content, s_fedora) THEN "dnf"
    ELSE IF Contains(content, s_arch) THEN "pacman"
    ELSE None

\* _check_os_release_files: the kind a readable file's content decides
ClassifyRelease(output, release_file) ==
    LET content == Lower(output) IN
    IF Contains(content, s_alpine) \/ Contains(release_file, s_alpine) THEN "apk"
    ELSE IF Contains(content, s_ubuntu) \/ Contains(content, s_debian)
            \/ Contains(release_file, s_debian) THEN "apt"
    ELSE IF Contains(content, s_centos) \/ Contains(content, s_rhel)
            \/ Contains(content, s_red_hat) THEN "yum"
    ELSE IF Contains(content, s_fedora) THEN "dnf"
    ELSE IF Contains(content, s_suse) \/ Contains(content, s_opensuse) THEN "zypper"
    ELSE IF Contains(content, s_arch) THEN "pacman"
    ELSE None

\* _check_image_metadata returning the name found in the image reference
\* where it should return the manager
ImageKindReturnsKeyword(image_tags) ==
    IF image_tags = <<>> THEN None
    ELSE LET image_name == Lower(image_tags[1]) IN
         IF Contains(image_name, s_alpine) THEN "apk"
         ELSE IF Contains(image_name, s_busybox) THEN "busybox"
         ELSE IF Contains(image_name, s_ubuntu) \/ Contains(image_name, s_debian) THEN "apt"
         ELSE IF Contains(image_name, s_centos) \/ Contains(image_name, s_rhel)
                 \/ Contains(image_name, s_rockylinux)
                 \/ Contains(image_name, s_oraclelinux) THEN "yum"
         ELSE IF Contains(image_name, s_fedora) THEN "dnf"
         ELSE IF Contains(image_name, s_opensuse) \/ Contains(image_name, s_suse) THEN "zypper"
         ELSE IF Contains(image_name, s_archlinux) THEN "pacman"
         ELSE None

\* _check_image_metadata comparing the image reference with == where it
\* should test containment
ImageKindExact(image_tags) ==
    IF image_tags = <<>> THEN None
    ELSE LET image_name == Lower(image_tags[1]) IN
         IF image_name = s_alpine \/ image_name = s_busybox THEN "apk"
         ELSE IF image_name = s_ubuntu \/ image_name = s_debian THEN "apt"
         ELSE IF image_name = s_centos \/ image_name = s_rhel
                 \/ image_name = s_rockylinux
                 \/ image_name = s_oraclelinux THEN "yum"
         ELSE IF image_name = s_fedora THEN "dnf"
         ELSE IF image_name = s_opensuse \/ image_name = s_suse THEN "zypper"
         ELSE IF image_name = s_archlinux THEN "pacman"
         ELSE None

\* _check_image_metadata without .lower()
ImageKindCaseSensitive(image_tags) ==
    IF image_tags = <<>> THEN None
    ELSE LET image_name == image_tags[1] IN
         IF Contains(image_name, s_alpine) \/ Contains(image_name, s_busybox) THEN "apk"
         ELSE IF Contains(image_name, s_ubuntu) \/ Contains(image_name, s_debian) THEN "apt"
         ELSE IF Contains(image_name, s_centos) \/ Contains(image_name, s_rhel)
                 \/ Contains(image_name, s_rockylinux)
                 \/ Contains(image_name, s_oraclelinux) THEN "yum"
         ELSE IF Contains(image_name, s_fedora) THEN "dnf"
         ELSE IF Contains(image_name, s_opensuse) \/ Contains(image_name, s_suse) THEN "zypper"
         ELSE IF Contains(image_name, s_archlinux) THEN "pacman"
         ELSE None

\* _check_image_metadata: the kind the first image tag decides
ImageKind(image_tags) ==
    IF image_tags = <<>> THEN None
    ELSE LET image_name == Lower(image_tags[1]) IN
         IF Contains(image_name, s_alpine) \/ Contains(image_name, s_busybox) THEN "apk"
         ELSE IF Contains(image_name, s_ubuntu) \/ Contains(image_name, s_debian) THEN "apt"
         ELSE IF Contains(image_name, s_centos) \/ Contains(image_name, s_rhel)
                 \/ Contains(image_name, s_rockylinux)
                 \/ Contains(image_name, s_oraclelinux) THEN "yum"
         ELSE IF Contains(image_name, s_fedora) THEN "dnf"
         ELSE IF Contains(image_name, s_opensuse) \/ Contains(image_name, s_suse) THEN "zypper"
         ELSE IF Contains(image_name, s_archlinux) THEN "pacman"
         ELSE None

\* the decisions above, tabulated over the results the environment can give
ReleaseKind ==
    [n \in 1..Len(release_files) |->
        [o \in ReleaseContents |-> ClassifyRelease(o, release_files[n])]]

ImageKinds == {ImageKind(tags) : tags \in ImageTags}

ImageKindOf == [tags \in ImageTags |-> ImageKind(tags)]

(***************************************************************************)
(* State.                                                                  *)
(***************************************************************************)
VARIABLES
    pc,           \* the statement the program is at
    caller,       \* who called setup_ssh_in_container: "api" or "fleet"
    phase,        \* who called detect_package_manager: "info" or "setup"
    target,       \* name of the container being worked on
    j,            \* index of the running loop over a command list
    dres,         \* detect_package_manager: the value it returns
    dyield,       \* <<k, kind>>: the first strategy whose helper returned a kind
    dlog,         \* remote commands issued by the running detect call, <<strategy, n>>
    dlast,        \* outcome of the last remote command of the detect call
    dread,        \* _check_os_release_files: the file read last and what came back
    dimage,       \* _check_image_metadata: what reading the image reference gave
    dlist,        \* _infer_from_available_commands: how the last listing ended
    running,      \* setup_ssh_in_container: result of _check_ssh_running
    kind,         \* setup_ssh_in_container: its local package_manager
    installExit,  \* outcome of the profile install command of this call
    cmds,         \* commands issued by the running provision call, <<stage, n>>
    ret,          \* setup_ssh_in_container: the value it returns
    lastOut,      \* how the last command of the running provision call ended
    resolved,     \* setup_ssh_in_container: its local ip_address
    verified,     \* what test_ssh_connection met in the running provision call
    attrs_read,   \* container.attrs as read last, until the next remote command
    local_key,    \* whether ~/.ssh/id_rsa and id_rsa.pub exist on this machine
    kgen,         \* copy_ssh_key_to_container: the key it found and how ssh-keygen went
    touched,      \* the blocks of remote commands so far: <<container, first purpose>>
    sudoers,      \* per container, the grant lines appended to /etc/sudoers
    probe,        \* what the CheckRunning probe returned, until the next remote command
    ulast,        \* what happened to the last one-shot install command of the call
    tested,       \* what the running call of test_ssh_connection tried and returned
    sshd,         \* the containers in which an SSH daemon runs
    calls,        \* direct calls of setup_ssh_in_container made so far
    succeeded,    \* containers for which an earlier direct call returned True
    names,        \* prepare_all_containers: the requested names
    i,            \* index of the running loop over names or containers_info
    ip_address,   \* _extract_container_info: its local ip_address
    containers_info, \* get_container_info: the records collected
    lookups,      \* how each turn of the loop of get_container_info went
    warnings,     \* names reported as not found by get_container_info
    success_count,\* prepare_all_containers: containers with SSH
    run_ret,      \* prepare_all_containers: the value it returns
    outcomes,     \* what setup_ssh_in_container returned for each record
    inventory     \* generate_ansible_inventory: the groups written, none at first

dvars == <<dres, dyield, dlog, dlast, dread, dimage, dlist>>

svars == <<running, kind, installExit, cmds, ret, lastOut, resolved, verified>>

svars_but_cmds == <<running, kind, installExit, ret>>

hvars == <<lastOut, resolved, verified>>

fvars == <<names, i, ip_address, containers_info, lookups, warnings,
           success_count, run_ret, outcomes, inventory>>

rvars == <<outcomes, inventory>>

kvars == <<local_key, kgen>>

vars == <<pc, caller, phase, target, j, dvars, svars, attrs_read, kvars, touched,
          sudoers, probe, ulast, tested, sshd, calls, succeeded, fvars>>

NoYield == <<0, None>>

Unset == "unset"

\* the image reference was not read
NoImage == [how |-> "none", tags |-> <<>>]

\* no path was listed
NoList == [how |-> "none", empty |-> TRUE]

\* a remote command is issued in container t, for detection, provisioning or
\* the key copy: a new block starts when the container changes, and is kept
\* with the purpose of its first command
Touch(t, what) ==
    IF touched # <<>> /\ touched[Len(touched)][1] = t
    THEN touched
    ELSE Append(touched, <<t, what>>)

\* test_ssh_connection was not called
NoTest == [hostname |-> "", tried |-> <<>>, seen |-> <<>>, met |-> "none", ret |-> FALSE]

\* the CheckRunning probe was not issued
NoProbe == [raised |-> FALSE, exit_code |-> 0 - 1, output |-> Empty]

\* copy_ssh_key_to_container is not running
NoGen == [had |-> "unknown", how |-> "none"]

\* container.attrs was not read
NoAttrs == [broken |-> FALSE, IPAddress |-> "", Networks |-> <<"unread">>]

\* no release file was read
NoRead == [file |-> 0, how |-> "none", output |-> <<>>]

Init ==
    /\ pc = "start"
    /\ caller = "none"
    /\ phase = "none"
    /\ target = "none"
    /\ j = 1
    /\ dres = None
    /\ dyield = NoYield
    /\ dlog = <<>>
    /\ dlast = "none"
    /\ dread = NoRead
    /\ dimage = NoImage
    /\ dlist = NoList
    /\ running = Unset
    /\ kind = Unset
    /\ installExit = Unset
    /\ cmds = <<>>
    /\ ret = Unset
    /\ lastOut = Unset
    /\ resolved = Unset
    /\ verified = Unset
    /\ attrs_read = NoAttrs
    /\ local_key \in {"present", "absent"}
    /\ kgen = NoGen
    /\ touched = <<>>
    /\ sudoers = [t \in Names |-> 0]
    /\ probe = NoProbe
    /\ ulast = "none"
    /\ tested = NoTest
    /\ sshd \in SUBSET Names
    /\ calls = 0
    /\ succeeded = {}
    /\ names = <<>>
    /\ i = 1
    /\ ip_address = Unset
    /\ containers_info = <<>>
    /\ lookups = <<>>
    /\ warnings = <<>>
    /\ success_count = 0
    /\ run_ret = Unset
    /\ outcomes = <<>>
    /\ inventory = <<>>

(***************************************************************************)
(* AnsibleDockerConnector.__init__                                         *)
(***************************************************************************)
Construct ==
    /\ pc = "start"
    /\ \/ pc' = "ready"       \* docker.from_env() returned a client
       \/ pc' = "exited"      \* it raised: sys.exit(1)
    /\ UNCHANGED <<caller, phase, target, j, dvars, svars, sshd, calls, succeeded, fvars, attrs_read, kvars,
                   touched,
                   sudoers, probe, ulast, tested>>

(***************************************************************************)
(* detect_package_manager and its four helpers.                            *)
(***************************************************************************)
\* the remote commands of a whole detect call, in the order they are issued
AllDetectCmds ==
    [n \in 1..21 |-> IF n <= 6 THEN <<1, n>>
                     ELSE IF n <= 12 THEN <<2, n - 6>>
                     ELSE <<4, n - 12>>]

\* a caller enters detect_package_manager
EnterDetect(who) ==
    /\ pc' = "d_direct"
    /\ phase' = who
    /\ j' = 1
    /\ dres' = None
    /\ dyield' = NoYield
    /\ dlog' = <<>>
    /\ dlast' = "none"
    /\ dread' = NoRead
    /\ dimage' = NoImage
    /\ dlist' = NoList

\* detect_package_manager without its early returns: every strategy runs and
\* the last result is what is returned
detect_without_return(k, h) ==
    /\ dyield' = IF dyield = NoYield /\ h # None THEN <<k, h>> ELSE dyield
    /\ j' = 1
    /\ dres' = h
    /\ pc' = CASE k = 1 -> "d_release"
               [] k = 2 -> "d_image"
               [] k = 3 -> "d_config"
               [] OTHER -> "d_ret"

\* detect_package_manager: helper k returned h (lines 108-132)
detect_package_manager(k, h) ==
    /\ dyield' = IF dyield = NoYield /\ h # None THEN <<k, h>> ELSE dyield
    /\ j' = 1
    /\ IF h # None
       THEN pc' = "d_ret" /\ dres' = h
       ELSE /\ dres' = None
            /\ pc' = CASE k = 1 -> "d_release"
                       [] k = 2 -> "d_image"
                       [] k = 3 -> "d_config"
                       [] OTHER -> "d_ret"

\* a helper whose loop does not move on to its next command
NextCommandRepeats(k, n) ==
    UNCHANGED <<j, pc, dres, dyield>>

\* the loop of a helper goes on to its next command; after the last one the
\* helper falls out of the loop
NextCommand(k, n) ==
    IF j < n
    THEN j' = j + 1 /\ UNCHANGED <<pc, dres, dyield>>
    ELSE IF pc = "d_config"
         THEN pc' = "d_dirs" /\ j' = 1 /\ UNCHANGED <<dres, dyield>>
         ELSE detect_package_manager(k, None)

\* a helper without the try/except around exec_run: the error leaves detect
OnExecErrorPropagates(k, n) ==
    pc' = "d_raise" /\ UNCHANGED <<j, dres, dyield>>

\* "except: continue" around each exec_run of the helpers
OnExecError(k, n) == NextCommand(k, n)

\* strategy 1 with the try around the whole loop: the first error ends the
\* helper without a result
direct_probe_stops_on_error ==
    /\ pc = "d_direct"
    /\ \E r \in ExecResults :
        /\ dlog' = Append(dlog, <<1, j>>)
        /\ attrs_read' = NoAttrs
        /\ probe' = NoProbe
        /\ IF r.raised
           THEN dlast' = "raised" /\ detect_package_manager(1, None)
           ELSE IF r.exit_code = 0
                THEN dlast' = "hit" /\ detect_package_manager(1, package_managers[j])
                ELSE dlast' = "failed" /\ NextCommand(1, Len(package_managers))
    /\ touched' = Touch(target, "detect")
    /\ UNCHANGED <<caller, phase, target, dread, dimage, dlist, svars, sshd, calls, succeeded, fvars,
                   kvars,
                   sudoers, ulast, tested>>

\* strategy 1: one "<mgr> --version" probe
check_package_managers_directly ==
    /\ pc = "d_direct"
    /\ \E r \in ExecResults :
        /\ dlog' = Append(dlog, <<1, j>>)
        /\ attrs_read' = NoAttrs
        /\ probe' = NoProbe
        /\ IF r.raised
           THEN dlast' = "raised" /\ OnExecError(1, Len(package_managers))
           ELSE IF r.exit_code = 0
                THEN dlast' = "hit" /\ detect_package_manager(1, package_managers[j])
                ELSE dlast' = "failed" /\ NextCommand(1, Len(package_managers))
    /\ touched' = Touch(target, "detect")
    /\ UNCHANGED <<caller, phase, target, dread, dimage, dlist, svars, sshd, calls, succeeded, fvars,
                   kvars,
                   sudoers, ulast, tested>>

\* strategy 2: one "cat <release file>"
check_os_release_files ==
    /\ pc = "d_release"
    /\ \E r \in ReleaseResults :
        /\ dlog' = Append(dlog, <<2, j>>)
        /\ dread' = [file |-> j, how |-> Out(r),
                     output |-> IF Out(r) = "ok" THEN r.output ELSE Empty]
        /\ IF r.raised
           THEN dlast' = "raised" /\ OnExecError(2, Len(release_files))
           ELSE IF r.exit_code = 0 /\ r.output # Empty
                     /\ ReleaseKind[j][r.output] # None
                THEN /\ dlast' = "hit"
                     /\ detect_package_manager(2, ReleaseKind[j][r.output])
                ELSE /\ dlast' = "failed"
                     /\ NextCommand(2, Len(release_files))
    /\ touched' = Touch(target, "detect")
    /\ UNCHANGED <<caller, phase, target, dimage, dlist, svars, sshd, calls, succeeded, fvars, attrs_read, kvars,
                   sudoers, probe, ulast, tested>>

\* strategy 3: the image reference; reading it may raise, which is swallowed
check_image_metadata ==
    /\ pc = "d_image"
    /\ \/ \E tags \in ImageTags :
             /\ dimage' = [how |-> "read", tags |-> tags]
             /\ detect_package_manager(3, ImageKindOf[tags])
       \/ /\ dimage' = [how |-> "raised", tags |-> <<>>]
          /\ detect_package_manager(3, None)
    /\ dread' = NoRead
    /\ UNCHANGED <<caller, phase, target, dlog, dlast, dlist, svars, sshd, calls, succeeded, fvars, attrs_read, kvars,
                   touched,
                   sudoers, probe, ulast, tested>>

\* strategy 4, first loop: one "ls <config path>"
infer_from_config_files ==
    /\ pc = "d_config"
    /\ \E r \in ExecResults :
        /\ dlog' = Append(dlog, <<4, j>>)
        /\ dimage' = NoImage
        /\ dlist' = [how |-> Out(r), empty |-> Out(r) # "ok" \/ r.output = Empty]
        /\ IF r.raised
           THEN dlast' = "raised" /\ OnExecError(4, Len(config_files))
           ELSE IF r.exit_code = 0 /\ r.output # Empty
                THEN dlast' = "hit" /\ detect_package_manager(4, config_files[j])
                ELSE dlast' = "failed" /\ NextCommand(4, Len(config_files))
    /\ touched' = Touch(target, "detect")
    /\ UNCHANGED <<caller, phase, target, dread, svars, sshd, calls, succeeded, fvars, attrs_read, kvars,
                   sudoers, probe, ulast, tested>>

\* strategy 4, second loop: one "ls <state directory>"
infer_from_dir_checks ==
    /\ pc = "d_dirs"
    /\ \E r \in ExecResults :
        /\ dlog' = Append(dlog, <<4, Len(config_files) + j>>)
        /\ dlist' = [how |-> Out(r), empty |-> Out(r) # "ok" \/ r.output = Empty]
        /\ IF r.raised
           THEN dlast' = "raised" /\ OnExecError(4, Len(dir_checks))
           ELSE IF r.exit_code = 0 /\ r.output # Empty
                THEN dlast' = "hit" /\ detect_package_manager(4, dir_checks[j])
                ELSE dlast' = "failed" /\ NextCommand(4, Len(dir_checks))
    /\ touched' = Touch(target, "detect")
    /\ UNCHANGED <<caller, phase, target, dread, dimage, svars, sshd, calls, succeeded, fvars, attrs_read, kvars,
                   sudoers, probe, ulast, tested>>

(***************************************************************************)
(* setup_ssh_in_container and the stages it calls.                         *)
(***************************************************************************)
\* the locals of a provision call, as they are when it is entered
EnterSetup(who, name) ==
    /\ pc' = "s_lookup"
    /\ caller' = who
    /\ target' = name
    /\ running' = Unset
    /\ kind' = Unset
    /\ installExit' = Unset
    /\ cmds' = <<>>
    /\ ret' = Unset
    /\ lastOut' = Unset
    /\ resolved' = Unset
    /\ verified' = Unset

\* setup_ssh_in_container returns v
Return(v) == pc' = "s_ret" /\ ret' = v

\* a direct call of setup_ssh_in_container(container_name)
CallSetup ==
    /\ pc = "ready"
    /\ calls < MaxCalls
    /\ calls' = calls + 1
    /\ \E name \in Names : EnterSetup("api", name)
    /\ UNCHANGED <<phase, j, dvars, sshd, succeeded, fvars, attrs_read, kvars,
                   touched,
                   sudoers, probe, ulast, tested>>

\* self.client.containers.get(container_name), lines 333-337
SetupLookup ==
    /\ pc = "s_lookup"
    /\ \/ pc' = "s_check" /\ UNCHANGED ret          \* the container is found
       \/ Return("False")                           \* docker.errors.NotFound
       \/ pc' = "s_raise" /\ UNCHANGED ret          \* another error of the client
    /\ UNCHANGED <<caller, phase, target, j, dvars, running, kind, installExit, hvars,
                   cmds, sshd, calls, succeeded, fvars, attrs_read, kvars,
                   touched,
                   sudoers, probe, ulast, tested>>

\* what the process probe can answer in a container
CheckResults(up) ==
    IF up THEN {Raised, Result(0, SomeText)}
    ELSE {Raised, Result(0, Empty), Result(1, Empty)}

\* _check_ssh_running going by the exit code alone
ssh_running_by_exit_code(r) == ~r.raised /\ r.exit_code = 0

\* _check_ssh_running, line 386
ssh_running(r) == ~r.raised /\ r.exit_code = 0 /\ r.output # Empty

\* setup_ssh_in_container without the early return on a running daemon
CheckRunningNoReturn ==
    /\ pc = "s_check"
    /\ \E r \in CheckResults(target \in sshd) :
        /\ cmds' = Append(cmds, <<"check", 1>>)
        /\ probe' = r
        /\ running' = IF ssh_running(r) THEN "True" ELSE "False"
        /\ EnterDetect("setup")
        /\ UNCHANGED ret
    /\ touched' = Touch(target, "provision")
    /\ UNCHANGED <<caller, target, kind, installExit, hvars, sshd, calls, succeeded, fvars, attrs_read, kvars,
                   sudoers, ulast, tested>>

\* lines 339-345: the CheckRunning probe, then either the early return or
\* the entry into detection
CheckRunning ==
    /\ pc = "s_check"
    /\ \E r \in CheckResults(target \in sshd) :
        /\ cmds' = Append(cmds, <<"check", 1>>)
        /\ probe' = r
        /\ running' = IF ssh_running(r) THEN "True" ELSE "False"
        /\ IF ssh_running(r)
           THEN /\ Return("True")
                /\ UNCHANGED <<phase, j, dvars>>
           ELSE /\ EnterDetect("setup")
                /\ UNCHANGED ret
    /\ touched' = Touch(target, "provision")
    /\ UNCHANGED <<caller, target, kind, installExit, hvars, sshd, calls, succeeded, fvars, attrs_read, kvars,
                   sudoers, ulast, tested>>

\* lines 345-353: detect_package_manager returned to setup_ssh_in_container
DetectReturnsToSetup ==
    /\ pc = "d_ret"
    /\ phase = "setup"
    /\ kind' = dres
    /\ pc' = IF dres = None THEN "s_universal" ELSE "s_install"
    /\ j' = 1
    /\ dres' = None
    /\ dyield' = NoYield
    /\ dlog' = <<>>
    /\ dlast' = "none"
    /\ dread' = NoRead
    /\ dimage' = NoImage
    /\ dlist' = NoList
    /\ UNCHANGED <<caller, phase, target, running, installExit, hvars, cmds,
                   ret, sshd, calls, succeeded, fvars, attrs_read, kvars,
                   touched,
                   sudoers, probe, ulast, tested>>

\* _install_ssh_with_pm without the test of the install command's exit code
InstallIgnoringExitCode ==
    /\ pc = "s_install"
    /\ IF kind \notin DOMAIN INSTALL_TEMPLATES
       THEN /\ Return("False")
            /\ UNCHANGED <<cmds, installExit, lastOut, j, touched>>
       ELSE \E r \in ExecResults :
            /\ cmds' = Append(cmds, <<"install", 1>>)
            /\ touched' = Touch(target, "provision")
            /\ lastOut' = Out(r)
            /\ IF r.raised
               THEN installExit' = "raised" /\ Return("False") /\ UNCHANGED j
               ELSE /\ installExit' = IF r.exit_code # 0 THEN "nonzero" ELSE "ok"
                    /\ pc' = "s_post" /\ j' = 1 /\ UNCHANGED ret
    /\ UNCHANGED <<caller, phase, target, dvars, running, kind, resolved, verified,
                   sshd, calls,
                   succeeded, fvars, attrs_read, kvars,
                   sudoers, probe, ulast, tested>>

\* _install_ssh_with_pm, lines 395-416: the template lookup and the install
\* command
InstallWithPm ==
    /\ pc = "s_install"
    /\ IF kind \notin DOMAIN INSTALL_TEMPLATES
       THEN /\ Return("False")
            /\ UNCHANGED <<cmds, installExit, lastOut, j, touched>>
       ELSE \E r \in ExecResults :
            /\ cmds' = Append(cmds, <<"install", 1>>)
            /\ touched' = Touch(target, "provision")
            /\ lastOut' = Out(r)
            /\ IF r.raised
               THEN installExit' = "raised" /\ Return("False") /\ UNCHANGED j
               ELSE IF r.exit_code # 0
                    THEN installExit' = "nonzero" /\ Return("False") /\ UNCHANGED j
                    ELSE installExit' = "ok" /\ pc' = "s_post" /\ j' = 1 /\ UNCHANGED ret
    /\ UNCHANGED <<caller, phase, target, dvars, running, kind, resolved, verified,
                   sshd, calls,
                   succeeded, fvars, attrs_read, kvars,
                   sudoers, probe, ulast, tested>>

\* _install_ssh_with_pm, lines 420-433: one post-install command; its result
\* is not looked at, an error it raises is caught by the except of the method
PostInstall ==
    /\ pc = "s_post"
    /\ \E r \in ExecResults :
        /\ cmds' = Append(cmds, <<"post", j>>)
        /\ lastOut' = Out(r)
        /\ IF r.raised
           THEN Return("False") /\ UNCHANGED j
           ELSE IF j < Len(INSTALL_TEMPLATES[kind])
                THEN j' = j + 1 /\ UNCHANGED <<pc, ret>>
                ELSE pc' = "s_user" /\ j' = 1 /\ UNCHANGED ret
    /\ touched' = Touch(target, "provision")
    /\ UNCHANGED <<caller, phase, target, dvars, running, kind, installExit, resolved,
                   verified, sshd,
                   calls, succeeded, fvars, attrs_read, kvars,
                   sudoers, probe, ulast, tested>>

\* _setup_ssh_user, lines 480-481: one user-configuration command; its result
\* is not looked at, an error it raises is not caught
SetupSshUser ==
    /\ pc = "s_user"
    /\ \E r \in ExecResults :
        /\ cmds' = Append(cmds, <<"user", j>>)
        /\ lastOut' = Out(r)
        /\ sudoers' = IF j = 3 /\ ~r.raised /\ r.exit_code = 0   \* echo ... >> /etc/sudoers
                      THEN [sudoers EXCEPT ![target] = @ + 1]
                      ELSE sudoers
        /\ IF r.raised
           THEN pc' = "s_raise" /\ UNCHANGED j
           ELSE IF j < Len(create_user_cmds)
                THEN j' = j + 1 /\ UNCHANGED pc
                ELSE pc' = "s_start" /\ j' = 1
    /\ touched' = Touch(target, "provision")
    /\ UNCHANGED <<caller, phase, target, dvars, running, kind, installExit, ret,
                   resolved, verified,
                   sshd, calls, succeeded, fvars, attrs_read, kvars, probe, ulast, tested>>

\* _start_ssh_service without "except: continue": an error of a start
\* command ends the stage with failure
StartStopsOnError ==
    /\ pc = "s_start"
    /\ \E r \in ExecResults :
        /\ cmds' = Append(cmds, <<"start", j>>)
        /\ lastOut' = Out(r)
        /\ IF r.raised
           THEN Return("False") /\ UNCHANGED <<sshd, j>>
           ELSE IF r.exit_code = 0
                THEN /\ sshd' = sshd \cup {target}
                     /\ pc' = "s_getip"
                     /\ UNCHANGED <<j, ret>>
                ELSE /\ UNCHANGED <<sshd, ret>>
                     /\ IF j < Len(start_commands)
                        THEN j' = j + 1 /\ UNCHANGED pc
                        ELSE pc' = "s_detach" /\ j' = 1
    /\ touched' = Touch(target, "provision")
    /\ UNCHANGED <<caller, phase, target, dvars, running, kind, installExit,
                   resolved, verified, calls, succeeded, fvars,
                   attrs_read, kvars,
                   sudoers, probe, ulast, tested>>

\* _start_ssh_service, lines 498-509: one service-start command
StartSshService ==
    /\ pc = "s_start"
    /\ \E r \in ExecResults :
        /\ cmds' = Append(cmds, <<"start", j>>)
        /\ lastOut' = Out(r)
        /\ IF ~r.raised /\ r.exit_code = 0
           THEN /\ sshd' = sshd \cup {target}
                /\ pc' = "s_getip"
                /\ UNCHANGED j
           ELSE /\ UNCHANGED sshd
                /\ IF j < Len(start_commands)
                   THEN j' = j + 1 /\ UNCHANGED pc
                   ELSE pc' = "s_detach" /\ j' = 1
    /\ touched' = Touch(target, "provision")
    /\ UNCHANGED <<caller, phase, target, dvars, svars_but_cmds, resolved, verified,
                   calls, succeeded, fvars, attrs_read, kvars,
                   sudoers, probe, ulast, tested>>

\* _start_ssh_service, lines 511-518: the detached launch of the daemon
StartDetached ==
    /\ pc = "s_detach"
    /\ cmds' = Append(cmds, <<"detach", 1>>)
    /\ \/ /\ sshd' = sshd \cup {target}
          /\ lastOut' = "ok"
          /\ pc' = "s_getip"
          /\ UNCHANGED ret
       \/ /\ UNCHANGED sshd                         \* the launch raised
          /\ lastOut' = "raised"
          /\ Return("False")
    /\ touched' = Touch(target, "provision")
    /\ UNCHANGED <<caller, phase, target, j, dvars, running, kind, installExit, resolved, verified,
                   calls, succeeded, fvars,
                   attrs_read, kvars,
                   sudoers, probe, ulast, tested>>

\* a network entry that has no IPAddress key
NoKey == "missing"

\* container.attrs as the runtime may report it; broken: a key is missing
Attrs ==
    { [broken |-> FALSE, IPAddress |-> "172.17.0.2", Networks |-> <<>>],
      [broken |-> FALSE, IPAddress |-> "172.17.0.2", Networks |-> <<NoKey>>],
      [broken |-> FALSE, IPAddress |-> "", Networks |-> <<"172.17.0.2">>],
      [broken |-> FALSE, IPAddress |-> "", Networks |-> <<NoKey>>],
      [broken |-> FALSE, IPAddress |-> "", Networks |-> <<>>],
      [broken |-> TRUE, IPAddress |-> "", Networks |-> <<>>] }

\* _get_container_ip looking at the network mapping first
get_container_ip_networks_first(a) ==
    IF a.broken THEN None
    ELSE IF a.Networks # <<>>
         THEN IF a.Networks[1] = NoKey THEN None ELSE a.Networks[1]
         ELSE a.IPAddress

\* _get_container_ip, lines 520-532
get_container_ip(a) ==
    IF a.broken THEN None
    ELSE IF a.IPAddress # "" THEN a.IPAddress
    ELSE IF a.Networks # <<>>
         THEN IF a.Networks[1] = NoKey THEN None ELSE a.Networks[1]
         ELSE ""

\* Python's truth value of an address
Truthy(ip) == ip \notin {"", None}

\* setup_ssh_in_container without the test of ip_address: the connection is
\* tested whatever was resolved
GetContainerIpThenVerify ==
    /\ pc = "s_getip"
    /\ \E a \in Attrs :
        /\ resolved' = get_container_ip(a)
        /\ attrs_read' = a
        /\ pc' = "s_verify"
        /\ UNCHANGED ret
    /\ UNCHANGED <<caller, phase, target, j, dvars, running, kind, installExit, lastOut, verified,
                   cmds, sshd, calls, succeeded, fvars,
                   kvars,
                   touched,
                   sudoers, probe, ulast, tested>>

\* lines 363-372: the address is resolved; without one the call returns True
GetContainerIp ==
    /\ pc = "s_getip"
    /\ \E a \in Attrs :
        /\ resolved' = get_container_ip(a)
        /\ attrs_read' = a
        /\ IF Truthy(get_container_ip(a))
           THEN pc' = "s_verify" /\ UNCHANGED ret
           ELSE Return("True")
    /\ UNCHANGED <<caller, phase, target, j, dvars, running, kind, installExit, lastOut, verified,
                   cmds, sshd, calls, succeeded, fvars,
                   kvars,
                   touched,
                   sudoers, probe, ulast, tested>>

\* what test_ssh_connection can meet
VerifyResults == {"connected", "key_connected", "auth_failed", "failed"}

\* test_ssh_connection, lines 596-610: how the password session went: it was
\* established and used, refused by an AuthenticationException, or ended by
\* another error (connection refused, timeout)
PasswordOutcomes == {"connected", "auth_failed", "error"}

\* test_ssh_connection, lines 618-634: how the key session went: established,
\* or ended by an error (the key could not be loaded, connect raised)
KeyOutcomes == {"connected", "error"}

\* the host names test_ssh_connection may be called with
Hostnames == {"", "172.17.0.2"}

\* test_ssh_connection falling back to the key after any error
test_ssh_connection_any_error(hostname, pw, key) ==
    IF ~Truthy(hostname)
    THEN [hostname |-> hostname, tried |-> <<>>, seen |-> <<>>, met |-> "failed",
          ret |-> FALSE]
    ELSE IF pw = "connected"
    THEN [hostname |-> hostname, tried |-> <<"password">>, seen |-> <<pw>>,
          met |-> "connected", ret |-> TRUE]
    ELSE IF pw \in {"auth_failed", "error"}
    THEN IF key = "connected"
         THEN [hostname |-> hostname, tried |-> <<"password", "key">>,
               seen |-> <<pw, key>>, met |-> "key_connected", ret |-> TRUE]
         ELSE [hostname |-> hostname, tried |-> <<"password", "key">>,
               seen |-> <<pw, key>>, met |-> "auth_failed", ret |-> FALSE]
    ELSE [hostname |-> hostname, tried |-> <<"password">>, seen |-> <<pw>>,
          met |-> "failed", ret |-> FALSE]

\* test_ssh_connection, lines 587-644: the sessions it tries, what they met
\* and what it returns
test_ssh_connection(hostname, pw, key) ==
    IF ~Truthy(hostname)                                   \* line 587
    THEN [hostname |-> hostname, tried |-> <<>>, seen |-> <<>>, met |-> "failed",
          ret |-> FALSE]
    ELSE IF pw = "connected"                               \* line 613
    THEN [hostname |-> hostname, tried |-> <<"password">>, seen |-> <<pw>>,
          met |-> "connected", ret |-> TRUE]
    ELSE IF pw = "auth_failed"                             \* line 615
    THEN IF key = "connected"
         THEN [hostname |-> hostname, tried |-> <<"password", "key">>,
               seen |-> <<pw, key>>, met |-> "key_connected", ret |-> TRUE]
         ELSE [hostname |-> hostname, tried |-> <<"password", "key">>,   \* line 638
               seen |-> <<pw, key>>, met |-> "auth_failed", ret |-> FALSE]
    ELSE [hostname |-> hostname, tried |-> <<"password">>, seen |-> <<pw>>,
          met |-> "failed", ret |-> FALSE]                 \* line 642

\* setup_ssh_in_container returning what test_ssh_connection returned
TestSshConnectionGates ==
    /\ pc = "s_verify"
    /\ \E pw \in PasswordOutcomes, key \in KeyOutcomes :
        LET t == test_ssh_connection(resolved, pw, key)
            v == t.met
        IN
        /\ cmds' = Append(cmds, <<"verify", 1>>)
        /\ tested' = t
        /\ verified' = v
        /\ Return(IF v \in {"connected", "key_connected"} THEN "True" ELSE "False")
    /\ touched' = Touch(target, "provision")
    /\ UNCHANGED <<caller, phase, target, j, dvars, running, kind, installExit, lastOut, resolved,
                   sshd, calls, succeeded, fvars, attrs_read, kvars,
                   sudoers, probe, ulast>>

\* lines 367-372: test_ssh_connection; its result is only printed
TestSshConnection ==
    /\ pc = "s_verify"
    /\ \E pw \in PasswordOutcomes, key \in KeyOutcomes :
        LET t == test_ssh_connection(resolved, pw, key)
            v == t.met
        IN
        /\ cmds' = Append(cmds, <<"verify", 1>>)
        /\ tested' = t
        /\ verified' = v
        /\ Return("True")
    /\ touched' = Touch(target, "provision")
    /\ UNCHANGED <<caller, phase, target, j, dvars, running, kind, installExit, lastOut, resolved,
                   sshd, calls, succeeded, fvars, attrs_read, kvars,
                   sudoers, probe, ulast>>

\* _install_ssh_universal, lines 451-464: one one-shot installer; an error it
\* raises is not caught
InstallUniversal ==
    /\ pc = "s_universal"
    /\ \E what \in UniversalOutcomes :
        LET r == universal_result(what, approaches_or_true[j]) IN
        /\ ulast' = what
        /\ cmds' = Append(cmds, <<"universal", j>>)
        /\ lastOut' = Out(r)
        /\ IF r.raised
           THEN pc' = "s_raise" /\ UNCHANGED <<j, ret>>
           ELSE IF r.exit_code = 0
                THEN Return("True") /\ UNCHANGED j
                ELSE IF j < Len(approaches)
                     THEN j' = j + 1 /\ UNCHANGED <<pc, ret>>
                     ELSE Return("False") /\ UNCHANGED j
    /\ touched' = Touch(target, "provision")
    /\ UNCHANGED <<caller, phase, target, dvars, running, kind, installExit, resolved, verified,
                   sshd, calls, succeeded, fvars, attrs_read, kvars,
                   sudoers, probe, tested>>

\* the frame of a provision call is left
LeaveSetup ==
    /\ caller' = "none"
    /\ phase' = "none"
    /\ target' = "none"
    /\ j' = 1
    /\ dres' = None
    /\ dyield' = NoYield
    /\ dlog' = <<>>
    /\ dlast' = "none"
    /\ dread' = NoRead
    /\ dimage' = NoImage
    /\ dlist' = NoList
    /\ running' = Unset
    /\ kind' = Unset
    /\ installExit' = Unset
    /\ cmds' = <<>>
    /\ ret' = Unset
    /\ lastOut' = Unset
    /\ resolved' = Unset
    /\ verified' = Unset
    /\ attrs_read' = NoAttrs
    /\ kgen' = NoGen
    /\ probe' = NoProbe
    /\ ulast' = "none"
    /\ tested' = NoTest

\* copy_ssh_key_to_container: the commands issued in the container, in order
copy_commands ==
    <<"mkdir -p .ssh", "echo pub_key >> authorized_keys",
      "chmod 600 authorized_keys", "chown -R .ssh">>

\* the locals of a key-copy call, as they are when it is entered
EnterCopyKey(who, name) ==
    /\ pc' = "k_gen"
    /\ caller' = who
    /\ target' = name
    /\ j' = 1
    /\ cmds' = <<>>
    /\ ret' = Unset
    /\ kgen' = [had |-> local_key, how |-> "none"]

\* a direct call of test_ssh_connection(hostname)
CallTestSsh ==
    /\ pc = "ready"
    /\ calls < MaxCalls
    /\ calls' = calls + 1
    /\ \E h \in Hostnames, pw \in PasswordOutcomes, key \in KeyOutcomes :
        /\ tested' = test_ssh_connection(h, pw, key)
        /\ ret' = IF test_ssh_connection(h, pw, key).ret THEN "True" ELSE "False"
    /\ pc' = "t_ret"
    /\ caller' = "api_test"
    /\ UNCHANGED <<phase, target, j, dvars, running, kind, installExit, cmds, hvars,
                   attrs_read, kvars, touched, sudoers, probe, ulast, sshd, succeeded,
                   fvars>>

\* a direct call of copy_ssh_key_to_container(container_name)
CallCopyKey ==
    /\ pc = "ready"
    /\ calls < MaxCalls
    /\ calls' = calls + 1
    /\ \E name \in Names : EnterCopyKey("api_key", name)
    /\ UNCHANGED <<phase, dvars, running, kind, installExit, hvars, attrs_read,
                   local_key, sshd, succeeded, fvars,
                   touched,
                   sudoers, probe, ulast, tested>>

\* copy_ssh_key_to_container, lines 543-554: the key pair is looked for and,
\* if it is not there, generated with ssh-keygen
KeyGenerate ==
    /\ pc = "k_gen"
    /\ IF local_key = "present"
       THEN /\ kgen' = [kgen EXCEPT !.how = "skipped"]
            /\ pc' = "k_lookup"
            /\ UNCHANGED <<local_key, ret>>
       ELSE \/ /\ local_key' = "present"               \* ssh-keygen exited 0
               /\ kgen' = [kgen EXCEPT !.how = "ok"]
               /\ pc' = "k_lookup"
               /\ UNCHANGED ret
            \/ /\ kgen' = [kgen EXCEPT !.how = "failed"] \* CalledProcessError
               /\ pc' = "k_ret"
               /\ ret' = "False"
               /\ UNCHANGED local_key
            \/ /\ kgen' = [kgen EXCEPT !.how = "raised"] \* ssh-keygen could not be
               /\ pc' = "k_raise"                        \* run: OSError, not caught
               /\ UNCHANGED <<local_key, ret>>
    /\ UNCHANGED <<caller, phase, target, j, dvars, running, kind, installExit, cmds,
                   hvars, attrs_read, sshd, calls, succeeded, fvars,
                   touched,
                   sudoers, probe, ulast, tested>>

\* copy_ssh_key_to_container, lines 556-561: the container is looked up and
\* the public key is read; any error is caught at line 578
KeyLookup ==
    /\ pc = "k_lookup"
    /\ \/ pc' = "k_cmd" /\ UNCHANGED ret
       \/ pc' = "k_ret" /\ ret' = "False"
    /\ UNCHANGED <<caller, phase, target, j, dvars, running, kind, installExit, cmds,
                   hvars, attrs_read, kvars, sshd, calls, succeeded, fvars,
                   touched,
                   sudoers, probe, ulast, tested>>

\* copy_ssh_key_to_container, lines 572-580: one command in the container;
\* its result is not looked at, an error it raises is caught at line 578
KeyCommand ==
    /\ pc = "k_cmd"
    /\ \E r \in ExecResults :
        /\ cmds' = Append(cmds, <<"key", j>>)
        /\ IF r.raised
           THEN pc' = "k_ret" /\ ret' = "False" /\ UNCHANGED j
           ELSE IF j < Len(copy_commands)
                THEN j' = j + 1 /\ UNCHANGED <<pc, ret>>
                ELSE pc' = "k_ret" /\ ret' = "True" /\ UNCHANGED j
    /\ touched' = Touch(target, "key")
    /\ UNCHANGED <<caller, phase, target, dvars, running, kind, installExit,
                   hvars, attrs_read, kvars, sshd, calls, succeeded, fvars,
                   sudoers, probe, ulast, tested>>

KeySteps ==
    \/ KeyGenerate
    \/ KeyLookup
    \/ KeyCommand

\* a direct call returns (or raises) to its caller
ApiReturn ==
    /\ pc \in {"s_ret", "s_raise", "k_ret", "k_raise", "t_ret"}
    /\ caller \in {"api", "api_key", "api_test"}
    /\ pc' = "ready"
    /\ succeeded' = IF pc = "s_ret" /\ ret = "True"
                    THEN succeeded \cup {target} ELSE succeeded
    /\ LeaveSetup
    /\ UNCHANGED <<sshd, calls, fvars, local_key,
                   touched,
                   sudoers>>

DetectSteps ==
    \/ check_package_managers_directly
    \/ check_os_release_files
    \/ check_image_metadata
    \/ infer_from_config_files
    \/ infer_from_dir_checks

SetupSteps ==
    \/ SetupLookup
    \/ CheckRunning
    \/ DetectReturnsToSetup
    \/ InstallWithPm
    \/ PostInstall
    \/ SetupSshUser
    \/ StartSshService
    \/ StartDetached
    \/ GetContainerIp
    \/ TestSshConnection
    \/ InstallUniversal

Next ==
    \/ Construct
    \/ CallSetup
    \/ CallCopyKey
    \/ CallTestSsh
    \/ KeySteps
    \/ DetectSteps
    \/ SetupSteps
    \/ ApiReturn

Spec == Init /\ [][Next]_vars

(***************************************************************************)
(* prepare_all_containers and get_container_info.                          *)
(***************************************************************************)
\* the lists of names a run may be asked for (a run without names, over every
\* running container, is not modelled); the containers start alike, so of two
\* lists that differ by an exchange of the names only one is kept
NameLists == {ns \in UNION {[1..n -> Names] : n \in 1..MaxNames} : ns[1] = "web"}

\* prepare_all_containers(container_names) is called, line 715
Prepare ==
    /\ pc = "ready"
    /\ \E ns \in NameLists :
        /\ names' = ns
        /\ pc' = "g_loop"
    /\ i' = 1
    /\ UNCHANGED <<caller, phase, target, j, dvars, svars, sshd, calls, succeeded,
                   ip_address, containers_info, lookups, warnings, success_count,
                   run_ret,
                   rvars, attrs_read, kvars,
                   touched,
                   sudoers, probe, ulast, tested>>

\* get_container_info with the NotFound handler ending the loop
OnNotFoundAborts ==
    /\ warnings' = Append(warnings, names[i])
    /\ pc' = "p_check"
    /\ UNCHANGED <<i, target>>

\* get_container_info on docker.errors.NotFound, lines 282-283: a warning is
\* printed and the loop goes on
OnNotFound ==
    /\ warnings' = Append(warnings, names[i])
    /\ i' = i + 1
    /\ UNCHANGED <<pc, target>>

\* get_container_info, lines 278-291: one turn of the loop up to the call of
\* _extract_container_info, or the end of the loop
GetContainer ==
    /\ pc = "g_loop"
    /\ IF i > Len(names)
       THEN /\ pc' = "p_check"
            /\ UNCHANGED <<target, i, lookups, warnings>>
       ELSE \/ /\ lookups' = Append(lookups, "ok")
               /\ pc' = "x_attrs"
               /\ target' = names[i]
               /\ UNCHANGED <<i, warnings>>
            \/ /\ lookups' = Append(lookups, "NotFound")
               /\ OnNotFound
            \/ /\ lookups' = Append(lookups, "error")   \* caught at line 288
               /\ pc' = "p_check"
               /\ UNCHANGED <<target, i, warnings>>
    /\ UNCHANGED <<caller, phase, j, dvars, svars, sshd, calls, succeeded,
                   names, ip_address, containers_info, success_count, run_ret,
                   rvars, attrs_read, kvars,
                   touched,
                   sudoers, probe, ulast, tested>>

\* _extract_container_info, lines 298-304: the address of the record
extract_ip(a) ==
    IF a.IPAddress # "" THEN a.IPAddress
    ELSE IF a.Networks # <<>>
         THEN IF a.Networks[1] = NoKey THEN "" ELSE a.Networks[1]
         ELSE ""

\* _extract_container_info, lines 295-307: the attributes are read, then
\* detection is entered; a missing key raises to the outer except of
\* get_container_info
ExtractAttrs ==
    /\ pc = "x_attrs"
    /\ \E a \in Attrs :
        IF a.broken
        THEN /\ pc' = "p_check"
             /\ UNCHANGED attrs_read
             /\ lookups' = [lookups EXCEPT ![Len(lookups)] = "broken"]
             /\ UNCHANGED <<phase, j, dvars, ip_address>>
        ELSE /\ ip_address' = extract_ip(a)
             /\ attrs_read' = a
             /\ EnterDetect("info")
             /\ UNCHANGED lookups
    /\ UNCHANGED <<caller, target, svars, sshd, calls, succeeded, names, i,
                   containers_info, warnings, success_count, run_ret,
                   rvars,
                   kvars,
                   touched,
                   sudoers, probe, ulast, tested>>

\* lines 307-319 and 281: detect_package_manager returned to
\* _extract_container_info; the record is built and appended
DetectReturnsToExtract ==
    /\ pc = "d_ret"
    /\ phase = "info"
    /\ containers_info' = Append(containers_info,
           [name |-> target, ip_address |-> ip_address, package_manager |-> dres])
    /\ i' = i + 1
    /\ pc' = "g_loop"
    /\ phase' = "none"
    /\ target' = "none"
    /\ ip_address' = Unset
    /\ j' = 1
    /\ dres' = None
    /\ dyield' = NoYield
    /\ dlog' = <<>>
    /\ dlast' = "none"
    /\ dread' = NoRead
    /\ dimage' = NoImage
    /\ dlist' = NoList
    /\ UNCHANGED <<caller, svars, sshd, calls, succeeded, names, lookups,
                   warnings, success_count, run_ret,
                   rvars, attrs_read, kvars,
                   touched,
                   sudoers, probe, ulast, tested>>

\* prepare_all_containers, lines 717-731: the test for an empty result, then
\* one turn of the loop up to the call of setup_ssh_in_container
SetupNext ==
    /\ pc \in {"p_check", "p_loop"}
    /\ IF containers_info = <<>>
       THEN /\ pc' = "done"
            /\ run_ret' = "False"
            /\ UNCHANGED <<caller, target, svars, i>>
       ELSE IF pc = "p_check"
            THEN /\ pc' = "p_loop"
                 /\ i' = 1
                 /\ UNCHANGED <<caller, target, svars, run_ret>>
            ELSE IF i <= Len(containers_info)
                 THEN /\ EnterSetup("fleet", containers_info[i].name)
                      /\ UNCHANGED <<i, run_ret>>
                 ELSE /\ pc' = "p_finish"
                      /\ UNCHANGED <<caller, target, svars, i, run_ret>>
    /\ UNCHANGED <<phase, j, dvars, sshd, calls, succeeded, names, ip_address,
                   containers_info, lookups, warnings, success_count,
                   rvars, attrs_read, kvars,
                   touched,
                   sudoers, probe, ulast, tested>>

\* prepare_all_containers, lines 731-734: setup_ssh_in_container returned
SetupReturnsToFleet ==
    /\ pc = "s_ret"
    /\ caller = "fleet"
    /\ pc' = IF ret = "True" THEN "k_copy" ELSE "p_loop"
    /\ i' = IF ret = "True" THEN i ELSE i + 1
    /\ outcomes' = Append(outcomes, ret)
    /\ LeaveSetup
    /\ UNCHANGED <<sshd, calls, succeeded, names, ip_address, containers_info,
                   lookups, warnings, success_count, run_ret,
                   inventory, local_key,
                   touched,
                   sudoers>>

\* setup_ssh_in_container or copy_ssh_key_to_container raised: nothing in
\* prepare_all_containers or main catches it
SetupRaisesToFleet ==
    /\ pc \in {"s_raise", "k_raise"}
    /\ caller = "fleet"
    /\ pc' = "crashed"
    /\ LeaveSetup
    /\ UNCHANGED <<sshd, calls, succeeded, fvars, local_key,
                   touched,
                   sudoers>>

\* prepare_all_containers, line 733: copy_ssh_key_to_container is called for
\* the container
CopySshKey ==
    /\ pc = "k_copy"
    /\ EnterCopyKey("fleet", containers_info[i].name)
    /\ UNCHANGED <<phase, dvars, running, kind, installExit, hvars, attrs_read,
                   local_key, sshd, calls, succeeded, fvars,
                   touched,
                   sudoers, probe, ulast, tested>>

\* prepare_all_containers counting a container only if the key copy worked
KeyReturnsCountingCopies ==
    /\ pc = "k_ret"
    /\ caller = "fleet"
    /\ success_count' = IF ret = "True" THEN success_count + 1 ELSE success_count
    /\ i' = i + 1
    /\ pc' = "p_loop"
    /\ LeaveSetup
    /\ UNCHANGED <<local_key, sshd, calls, succeeded, names, ip_address,
                   containers_info, lookups, warnings, run_ret, rvars,
                   touched,
                   sudoers>>

\* prepare_all_containers, line 734: copy_ssh_key_to_container returned;
\* whatever it returned, the container is counted
KeyReturnsToFleet ==
    /\ pc = "k_ret"
    /\ caller = "fleet"
    /\ success_count' = success_count + 1
    /\ i' = i + 1
    /\ pc' = "p_loop"
    /\ LeaveSetup
    /\ UNCHANGED <<local_key, sshd, calls, succeeded, names, ip_address,
                   containers_info, lookups, warnings, run_ret, rvars,
                   touched,
                   sudoers>>

\* an f-string's text for a package-manager value: None is written "None"
format(pm) == IF pm = None THEN "None" ELSE pm

\* generate_ansible_inventory, lines 668 and 690: the name of the group of
\* the containers recorded with package manager pm
group_name(pm) == IF pm # "unknown" THEN "docker_" \o format(pm) ELSE "docker_unknown"

\* generate_ansible_inventory, lines 659-664: the keys of groups, in the order
\* in which they are inserted
RECURSIVE GroupKeys(_)
GroupKeys(info) ==
    IF info = <<>> THEN <<>>
    ELSE LET front == GroupKeys(SubSeq(info, 1, Len(info) - 1))
             pm    == info[Len(info)].package_manager
         IN IF \E k \in 1..Len(front) : front[k] = pm
            THEN front
            ELSE Append(front, pm)

\* generate_ansible_inventory, lines 659-685: one group per package manager,
\* with a host line for each of its records that has an address
generate_ansible_inventory(info) ==
    LET keys == GroupKeys(info) IN
    [g \in 1..Len(keys) |->
        LET InGroup(c) == c.package_manager = keys[g] /\ Truthy(c.ip_address)
            lines == SelectSeq(info, InGroup)
        IN [group |-> keys[g],
            header |-> group_name(keys[g]),
            hosts |-> [k \in 1..Len(lines) |-> lines[k].name]]]

\* generate_ansible_inventory, lines 688-691: the lines under
\* [all_docker:children]
all_docker_children(info) ==
    LET keys == GroupKeys(info) IN [g \in 1..Len(keys) |-> group_name(keys[g])]

\* prepare_all_containers, lines 736-761: the inventory is written, the
\* connections are tested and the summary decides the result
FinishRun ==
    /\ pc = "p_finish"
    /\ run_ret' = IF success_count > 0 THEN "True" ELSE "False"
    /\ inventory' = generate_ansible_inventory(containers_info)
    /\ pc' = "done"
    /\ UNCHANGED <<caller, phase, target, j, dvars, svars, sshd, calls, succeeded,
                   names, i, ip_address, containers_info, lookups, warnings,
                   success_count,
                   outcomes, attrs_read, kvars,
                   touched,
                   sudoers, probe, ulast, tested>>

FleetSteps ==
    \/ Prepare
    \/ GetContainer
    \/ ExtractAttrs
    \/ DetectReturnsToExtract
    \/ SetupNext
    \/ SetupReturnsToFleet
    \/ SetupRaisesToFleet
    \/ CopySshKey
    \/ KeyReturnsToFleet
    \/ FinishRun

FleetNext ==
    \/ Construct
    \/ DetectSteps
    \/ SetupSteps
    \/ KeySteps
    \/ FleetSteps

\* a run starts on containers in which no SSH daemon runs yet, on a machine
\* without a key pair
FleetInit == Init /\ sshd = {} /\ local_key = "absent"

FleetSpec == FleetInit /\ [][FleetNext]_vars

(***************************************************************************)
(* Properties of detection.                                                *)
(***************************************************************************)
DetectLoopPcs == {"d_direct", "d_release", "d_image", "d_config", "d_dirs"}

\* C1: short-circuit law of detect. Once the helper of strategy k has
\* returned a kind, detect returns that kind at once: no later strategy runs
\* and the log of the call holds no remote command of strategies k+1..4.
ShortCircuitLaw ==
    /\ pc \in DetectLoopPcs => dyield = NoYield
    /\ (pc = "d_ret" /\ dyield # NoYield) =>
          /\ dres = dyield[2]
          /\ \A n \in 1..Len(dlog) : dlog[n][1] <= dyield[1]

\* strategy 2 decided, after the six direct probes found nothing
ShortCircuitWitness ==
    /\ pc = "d_ret"
    /\ dyield = <<2, "apt">>
    /\ Len(dlog) > Len(package_managers)

\* the number of remote commands a detect call has issued when it is at a
\* given statement with loop index n
DetectPos(at, n) ==
    CASE at = "d_direct"  -> n - 1
      [] at = "d_release" -> 6 + n - 1
      [] at = "d_image"   -> 12
      [] at = "d_config"  -> 12 + n - 1
      [] at = "d_dirs"    -> 17 + n - 1
      [] OTHER            -> 21

Kinds == {"apk", "apt", "yum", "dnf", "zypper", "pacman"}

\* C6: detect never raises. No error of the executor leaves detect; a command
\* that fails (raised error, non-zero exit, empty output) is followed by the
\* next command of the fixed order, none skipped, so the commands issued are
\* always a prefix of the full sequence; and detect returns a kind or None,
\* None only after all 21 commands, a kind after a failing last command only
\* from the image reference.
DetectNeverRaises ==
    /\ pc # "d_raise"
    /\ pc \in DetectLoopPcs => dlog = SubSeq(AllDetectCmds, 1, DetectPos(pc, j))
    /\ pc = "d_ret" =>
          /\ dres \in Kinds \cup {None}
          /\ dlog = SubSeq(AllDetectCmds, 1, Len(dlog))
          /\ dres = None => dlog = AllDetectCmds
          /\ dlast \in {"raised", "failed"} =>
                \/ dres = None
                \/ dyield[1] = 3 /\ Len(dlog) = 12

\* every command of detect was issued, the last one raised, and detect
\* returned None
DetectNeverRaisesWitness ==
    /\ pc = "d_ret"
    /\ dres = None
    /\ dlast = "raised"
    /\ Len(dlog) = 21

\* C18: the result of detect is a member of the closed enumeration: one of
\* the six managers, or None (unknown); so is the kind the provision call
\* works with and the kind of every record.
DetectResultInEnumeration ==
    /\ pc = "d_ret" => dres \in Kinds \cup {None}
    /\ kind # Unset => kind \in Kinds \cup {None}
    /\ \A k \in 1..Len(containers_info) :
          containers_info[k].package_manager \in Kinds \cup {None}

\* the image reference decided, for a busybox image
DetectResultInEnumerationWitness ==
    /\ pc = "d_ret"
    /\ dyield = <<3, "apk">>
    /\ Len(dlog) = 12

\* C19: direct probe. The managers are probed in the order apk, apt, yum,
\* dnf, zypper, pacman, each only after the probes before it failed or raised;
\* a probe that exits 0 decides its manager and no later manager is probed;
\* any later strategy runs only after all six probes.
DirectProbeOrder ==
    /\ package_managers = <<"apk", "apt", "yum", "dnf", "zypper", "pacman">>
    /\ pc = "d_direct" =>
          /\ dlog = [n \in 1..(j - 1) |-> <<1, n>>]
          /\ j > 1 => dlast \in {"failed", "raised"}
    /\ pc \in DetectLoopPcs \ {"d_direct"} =>
          /\ Len(dlog) >= Len(package_managers)
          /\ SubSeq(dlog, 1, Len(package_managers)) =
                [n \in 1..Len(package_managers) |-> <<1, n>>]
    /\ (pc = "d_ret" /\ dyield[1] = 1) =>
          /\ dlast = "hit"
          /\ Len(dlog) <= Len(package_managers)
          /\ dlog = [n \in 1..Len(dlog) |-> <<1, n>>]
          /\ dres = package_managers[Len(dlog)]
    /\ (pc = "d_ret" /\ dyield[1] # 1) => Len(dlog) >= Len(package_managers)

\* the probes of apk and apt failed or raised, the probe of yum exited 0
DirectProbeOrderWitness ==
    /\ pc = "d_ret"
    /\ dyield = <<1, "yum">>
    /\ dlog = << <<1, 1>>, <<1, 2>>, <<1, 3>> >>

\* the keyword table of release-file inspection, applied to a file's content
ContentKind(output) ==
    LET content == Lower(output) IN
    IF Contains(content, s_alpine) THEN "apk"
    ELSE IF Contains(content, s_ubuntu) \/ Contains(content, s_debian) THEN "apt"
    ELSE IF Contains(content, s_centos) \/ Contains(content, s_rhel)
            \/ Contains(content, s_red_hat) THEN "yum"
    ELSE IF Contains(content, s_fedora) THEN "dnf"
    ELSE IF Contains(content, s_suse) \/ Contains(content, s_opensuse) THEN "zypper"
    ELSE IF Contains(content, s_arch) THEN "pacman"
    ELSE None

ContentKinds == [o \in ReleaseContents |-> ContentKind(o)]

\* the kind the path of a release file stands for by itself
PathKinds ==
    [n \in 1..Len(release_files) |->
        IF Contains(release_files[n], s_alpine) THEN "apk"
        ELSE IF Contains(release_files[n], s_debian) THEN "apt"
        ELSE None]

\* the kind of a file read with exit 0: alpine by content or path, then
\* ubuntu/debian by content or path, then the rest of the keyword table
FileKind(n, output) ==
    IF ContentKinds[output] = "apk" \/ PathKinds[n] = "apk" THEN "apk"
    ELSE IF ContentKinds[output] = "apt" \/ PathKinds[n] = "apt" THEN "apt"
    ELSE ContentKinds[output]

\* the release file read last by a helper that is over or has gone on
LastFile ==
    IF pc = "d_release" THEN j - 1 ELSE Len(release_files)

ReleaseOrder ==
    /\ pc = "d_release" =>
          dlog = SubSeq(AllDetectCmds, 1, Len(package_managers) + j - 1)
    /\ ((pc = "d_release" /\ j > 1) \/ pc = "d_image") => dread.file = LastFile
    /\ (pc = "d_ret" /\ dyield[1] = 2) =>
          /\ dread.file \in 1..Len(release_files)
          /\ dlog = SubSeq(AllDetectCmds, 1, Len(package_managers) + dread.file)

\* scenario B: every direct probe failed and /etc/os-release holds ID=ubuntu
ScenarioB ==
    /\ pc = "d_ret"
    /\ Len(dlog) = Len(package_managers) + 1
    /\ dread = [file |-> 1, how |-> "ok", output |-> <<"I","D","=","u","b","u","n","t","u">>]

\* C20 as stated: the release files are read in their fixed order; the file
\* that decides is one whose content holds a keyword, and the kind is the one
\* of that keyword; a file that is unreadable, empty or without a keyword in
\* its content is skipped; in scenario B detect returns apt.
ReleaseContentDecides ==
    /\ ReleaseOrder
    /\ (pc = "d_ret" /\ dyield[1] = 2) =>
          /\ dread.how = "ok"
          /\ ContentKinds[dread.output] # None
          /\ dres = ContentKinds[dread.output]
    /\ ((pc = "d_release" /\ j > 1) \/ pc = "d_image") =>
          \/ dread.how # "ok"
          \/ dread.output = Empty
          \/ ContentKinds[dread.output] = None
    /\ ScenarioB => dres = "apt"

\* C20 as amended: the file that decides is one read with exit 0 and not
\* empty whose content holds a keyword or whose path names alpine or debian;
\* a file is skipped when it is unreadable, empty or has neither.
ReleaseFileDecides ==
    /\ ReleaseOrder
    /\ (pc = "d_ret" /\ dyield[1] = 2) =>
          /\ dread.how = "ok"
          /\ dread.output # Empty
          /\ FileKind(dread.file, dread.output) # None
          /\ dres = FileKind(dread.file, dread.output)
    /\ ((pc = "d_release" /\ j > 1) \/ pc = "d_image") =>
          \/ dread.how # "ok"
          \/ dread.output = Empty
          \/ FileKind(dread.file, dread.output) = None
    /\ ScenarioB => dres = "apt"

\* /etc/debian_version holds a bare version number and decides apt
ReleaseFileDecidesWitness ==
    /\ pc = "d_ret"
    /\ dyield = <<2, "apt">>
    /\ dread = [file |-> 4, how |-> "ok", output |-> <<"1","2",".","4">>]

\* the precedence of the kinds where several match
Precedence == <<"apk", "apt", "yum", "dnf", "zypper", "pacman">>

\* the keyword sets of release-file inspection
ReleaseKeywords ==
    [ apk    |-> {s_alpine},
      apt    |-> {s_ubuntu, s_debian},
      yum    |-> {s_centos, s_rhel, s_red_hat},
      dnf    |-> {s_fedora},
      zypper |-> {s_suse, s_opensuse},
      pacman |-> {s_arch} ]

\* the substring sets of the image-name heuristics
ImageKeywords ==
    [ apk    |-> {s_alpine, s_busybox},
      apt    |-> {s_ubuntu, s_debian},
      yum    |-> {s_centos, s_rhel, s_rockylinux, s_oraclelinux},
      dnf    |-> {s_fedora},
      zypper |-> {s_opensuse, s_suse},
      pacman |-> {s_archlinux} ]

\* the kinds of which a keyword occurs in the lower-cased text
Matching(text, table) ==
    {k \in Kinds : \E w \in table[k] : Contains(Lower(text), w)}

\* the kind of highest precedence in a set of kinds, None for the empty set
FirstOf(S) ==
    IF S = {} THEN None
    ELSE Precedence[CHOOSE n \in 1..Len(Precedence) :
                        /\ Precedence[n] \in S
                        /\ \A m \in 1..(n - 1) : Precedence[m] \notin S]

ContentMatches == [o \in ReleaseContents |-> Matching(o, ReleaseKeywords)]

PathMatches == [n \in 1..Len(release_files) |-> {k \in Kinds : PathKinds[n] = k}]

ImageMatches ==
    [t \in ImageTags |-> IF t = <<>> THEN {} ELSE Matching(t[1], ImageKeywords)]

\* strategy 2 returned a kind
ReleaseDecided == pc = "d_ret" /\ dyield[1] = 2

\* C21: a target whose image reference contains "alpine" and for which
\* strategies 1 and 2 found nothing is resolved to apk by strategy 3, after
\* the twelve commands of strategies 1 and 2 and no command of strategy 4.
ImageAlpineResolves ==
    (dimage.how = "read" /\ dimage.tags # <<>>
       /\ Contains(Lower(dimage.tags[1]), s_alpine)) =>
        /\ pc = "d_ret"
        /\ dres = "apk"
        /\ dyield = <<3, "apk">>
        /\ dlog = SubSeq(AllDetectCmds, 1, 12)

\* the image alpine:3 decided
ImageAlpineResolvesWitness ==
    /\ pc = "d_ret"
    /\ dimage = [how |-> "read", tags |-> << <<"a","l","p","i","n","e",":","3">> >>]
    /\ dres = "apk"

\* C26 as stated: the kind strategy 2 returns for a file is one of which a
\* keyword occurs in the file's lower-cased content; a readable file whose
\* content holds no keyword yields nothing.
ContentOnlyDecides ==
    ReleaseDecided =>
        /\ dread.how = "ok"
        /\ dres \in ContentMatches[dread.output]

\* C26 as amended: the kind strategy 2 returns for a file is one of which a
\* keyword occurs in the content, or apk for /etc/alpine-release and apt for
\* /etc/debian_version whatever they hold; a readable file with neither
\* yields nothing.
KeywordOrPathDecides ==
    ReleaseDecided =>
        /\ dread.how = "ok"
        /\ dread.output # Empty
        /\ dres \in ContentMatches[dread.output] \cup PathMatches[dread.file]

\* /etc/alpine-release holds a bare version number and decides apk
KeywordOrPathDecidesWitness ==
    /\ ReleaseDecided
    /\ dread = [file |-> 5, how |-> "ok", output |-> <<"1","2",".","4">>]
    /\ dres = "apk"

\* C27 as stated: when the content holds keywords of several kinds, the kind
\* returned is the one of highest precedence among them.
PrecedenceByContent ==
    (ReleaseDecided /\ Cardinality(ContentMatches[dread.output]) > 1) =>
        dres = FirstOf(ContentMatches[dread.output])

\* C27 as amended: the kind returned is the one of highest precedence among
\* the kinds matched by the content together with the kind the path stands
\* for (apk for /etc/alpine-release, apt for /etc/debian_version).
PrecedenceWithPath ==
    ReleaseDecided =>
        dres = FirstOf(ContentMatches[dread.output] \cup PathMatches[dread.file])

\* /etc/os-release holds fedora and suse and decides dnf
PrecedenceWithPathWitness ==
    /\ ReleaseDecided
    /\ dread = [file |-> 1, how |-> "ok",
                output |-> <<"f","e","d","o","r","a"," ","s","u","s","e">>]
    /\ dres = "dnf"

\* C28: image-name heuristics. The kind of strategy 3 is the one of highest
\* precedence among the kinds of which a substring occurs in the lower-cased
\* first image reference; without a reference, without a match or when
\* reading the reference raises, strategy 3 yields nothing and detect goes on
\* to strategy 4.
ImageHeuristics ==
    /\ pc # "d_raise"
    /\ dimage.how # "none" =>
          LET e == IF dimage.how = "read" THEN FirstOf(ImageMatches[dimage.tags])
                   ELSE None
          IN IF e = None
             THEN pc = "d_config" /\ j = 1 /\ dyield = NoYield /\ dres = None
             ELSE pc = "d_ret" /\ dres = e /\ dyield = <<3, e>>

\* an image reference holding fedora and suse decided dnf
ImageHeuristicsWitness ==
    /\ pc = "d_ret"
    /\ dimage = [how |-> "read",
                 tags |-> << <<"f","e","d","o","r","a","-","s","u","s","e">> >>]
    /\ dres = "dnf"

\* C29: filesystem inference. The five config paths are listed in order,
\* then the four state directories; the kind strategy 4 returns is the one of
\* the path listed last, whose listing exited 0; and a state directory is
\* passed over only if it does not exist, that is if its listing did not
\* exit 0: an existing directory decides even when it is empty.
FirstExistingPathWins ==
    /\ config_files = <<"apk", "apt", "yum", "dnf", "zypper">>
    /\ dir_checks = <<"apk", "apt", "yum", "dnf">>
    /\ pc = "d_config" => dlog = SubSeq(AllDetectCmds, 1, 12 + j - 1)
    /\ pc = "d_dirs" => dlog = SubSeq(AllDetectCmds, 1, 17 + j - 1)
    /\ (pc = "d_ret" /\ dyield[1] = 4) =>
          /\ dlist.how = "ok"
          /\ dlog = SubSeq(AllDetectCmds, 1, Len(dlog))
          /\ dres = IF Len(dlog) <= 17 THEN config_files[Len(dlog) - 12]
                    ELSE dir_checks[Len(dlog) - 17]
    /\ ((pc = "d_dirs" /\ j > 1) \/ (pc = "d_ret" /\ dres = None)) =>
          dlist.how # "ok"

(***************************************************************************)
(* Properties of provisioning.                                             *)
(***************************************************************************)
StageOf(c) ==
    CASE c[1] \in {"install", "post", "universal"} -> "Install"
      [] c[1] = "user"                              -> "ConfigureUser"
      [] c[1] \in {"start", "detach"}               -> "StartService"
      [] OTHER                                      -> "other"

\* the stages a command log went through, each maximal run of commands of one
\* stage counted once
RECURSIVE Stages(_)
Stages(log) ==
    IF log = <<>> THEN <<>>
    ELSE LET front == Stages(SubSeq(log, 1, Len(log) - 1))
             st    == StageOf(log[Len(log)])
         IN IF st = "other" \/ (front # <<>> /\ front[Len(front)] = st)
            THEN front
            ELSE Append(front, st)

\* C2: a provision call that found no daemon and returns True has executed
\* Install, ConfigureUser and StartService, each once, in that order.
StagesInOrder ==
    (pc = "s_ret" /\ ret = "True" /\ running = "False") =>
        Stages(cmds) = <<"Install", "ConfigureUser", "StartService">>

\* C3: idempotence. In a call on a container for which an earlier call
\* returned True, and whose CheckRunning probe was answered, nothing but the
\* CheckRunning probe is issued.
IdempotentProvision ==
    (caller = "api" /\ target \in succeeded /\ ~(running = "False" /\ target \in sshd)) =>
        /\ dlog = <<>>
        /\ \A n \in 1..Len(cmds) : cmds[n][1] = "check"

\* C4: when the CheckRunning probe reports a running daemon the call returns
\* True at once: the probe is the only command of the call.
RunningShortCircuits ==
    running = "True" =>
        /\ pc = "s_ret"
        /\ ret = "True"
        /\ cmds = << <<"check", 1>> >>
        /\ dlog = <<>>
        /\ kind = Unset

\* the probe found a daemon and the call is about to return
RunningShortCircuitsWitness ==
    /\ running = "True"
    /\ pc = "s_ret"
    /\ target \in sshd

\* C5: when the profile install command exits non-zero the call returns False
\* and the install command is the last command it issued.
InstallFailureStops ==
    installExit = "nonzero" =>
        /\ pc = "s_ret"
        /\ ret = "False"
        /\ cmds[Len(cmds)] = <<"install", 1>>

\* a profile install command exited non-zero
InstallFailureStopsWitness ==
    /\ installExit = "nonzero"
    /\ kind \in DOMAIN INSTALL_TEMPLATES
    /\ pc = "s_ret"

\* the commands of a log that belong to the given stages
OfStages(log, stages) ==
    LET Test(c) == c[1] \in stages IN SelectSeq(log, Test)

\* C11: universal fallback. With an unknown kind the one-shot installers are
\* tried in the order apt, yum, apk, dnf, each only after the ones before it
\* exited non-zero; the first exit 0 ends the call with True and no later
\* installer is issued; the call ends with False (InstallFailed) exactly when
\* none of the four exited 0, so it never ends in any other way.
UniversalFallback ==
    (kind = None /\ pc # "s_universal") =>
        /\ approaches = <<"apt", "yum", "apk", "dnf">>
        /\ OfStages(cmds, {"universal"}) =
              [n \in 1..(Len(cmds) - 1) |-> <<"universal", n>>]
        /\ Len(cmds) - 1 <= Len(approaches)
        /\ pc = "s_ret"
        /\ ret = "True" <=> lastOut = "ok"
        /\ ret = "False" <=> (lastOut = "nonzero" /\ Len(cmds) - 1 = Len(approaches))

\* C12: post-install is best effort. After a successful profile install, once
\* the Install stage is over every post-install command of the profile has
\* been issued, in profile order, and if the call returns False it is not the
\* Install stage that failed: a start command was issued.
PostInstallBestEffort ==
    (installExit = "ok" /\ pc # "s_post") =>
        /\ OfStages(cmds, {"post"}) =
              [n \in 1..Len(INSTALL_TEMPLATES[kind]) |-> <<"post", n>>]
        /\ (pc = "s_ret" /\ ret = "False") => OfStages(cmds, {"start"}) # <<>>

\* C13: user setup never aborts. Once a ConfigureUser command was issued and
\* the stage is over, all six commands were issued, no error left the call,
\* the call went on to StartService, and what it returns is what StartService
\* decided.
UserSetupNeverAborts ==
    (OfStages(cmds, {"user"}) # <<>> /\ pc # "s_user") =>
        /\ pc # "s_raise"
        /\ OfStages(cmds, {"user"}) =
              [n \in 1..Len(create_user_cmds) |-> <<"user", n>>]
        /\ pc = "s_ret" =>
              /\ OfStages(cmds, {"start"}) # <<>>
              /\ ret = "True" <=> lastOut = "ok"

\* C14: StartService. The start commands are issued in their fixed order,
\* each only after the ones before it failed (non-zero exit or raised error);
\* the first exit 0 ends the stage with success and nothing of the stage
\* follows it; after five failures the daemon is launched once in detached
\* mode; the call returns False after this stage only when that launch raised.
StartServiceOrder ==
    LET st == OfStages(cmds, {"start", "detach"})
        n  == Len(st)
    IN /\ start_commands = <<"/usr/sbin/sshd -D &", "service ssh start",
                             "systemctl start sshd", "rc-service sshd start",
                             "/etc/init.d/ssh start">>
       /\ n <= Len(start_commands) + 1
       /\ \A k \in 1..n :
             st[k] = IF k <= Len(start_commands) THEN <<"start", k>> ELSE <<"detach", 1>>
       /\ pc = "s_start" =>
             /\ n = j - 1
             /\ j > 1 => lastOut \in {"nonzero", "raised"}
       /\ pc = "s_detach" =>
             /\ n = Len(start_commands)
             /\ lastOut \in {"nonzero", "raised"}
       /\ (n > 0 /\ pc \notin {"s_start", "s_detach"}) =>
             /\ pc \in {"s_getip", "s_verify", "s_ret"}
             /\ IF pc = "s_ret" /\ ret = "False"
                THEN st[n] = <<"detach", 1>> /\ lastOut = "raised"
                ELSE lastOut = "ok"

\* all five start commands failed, the detached launch did not raise and the
\* call returned True
StartServiceOrderWitness ==
    /\ pc = "s_ret"
    /\ ret = "True"
    /\ Len(OfStages(cmds, {"start"})) = Len(start_commands)
    /\ OfStages(cmds, {"detach"}) # <<>>

\* C15: verification is diagnostic. Whatever test_ssh_connection meets, the
\* call returns True; and a call whose install succeeded and whose
\* StartService stage succeeded returns True.
VerifyIsDiagnostic ==
    /\ verified # Unset => (pc = "s_ret" /\ ret = "True")
    /\ (pc = "s_ret" /\ installExit = "ok" /\ lastOut = "ok"
          /\ OfStages(cmds, {"start", "detach"}) # <<>>) => ret = "True"

\* the connection could not be opened and the call returned True
VerifyIsDiagnosticWitness ==
    /\ pc = "s_ret"
    /\ verified = "failed"
    /\ ret = "True"

\* C16: without a resolvable address (an empty or missing address, or an
\* error while the attributes are read) test_ssh_connection is not called and
\* the call returns True; the connection is tested only with an address.
NoAddressSkipsVerify ==
    /\ (resolved # Unset /\ ~Truthy(resolved)) =>
          /\ pc = "s_ret"
          /\ ret = "True"
          /\ verified = Unset
          /\ OfStages(cmds, {"verify"}) = <<>>
    /\ (pc = "s_verify" \/ verified # Unset) => Truthy(resolved)

\* reading the attributes raised, after Install and StartService succeeded
NoAddressSkipsVerifyWitness ==
    /\ pc = "s_ret"
    /\ resolved = None
    /\ installExit = "ok"
    /\ ret = "True"

\* C24: pacman is detection-only. With pacman detected (or any detected kind
\* that has no install profile) the call issues nothing after the
\* CheckRunning probe, no install, post-install, user or start command, and
\* returns False.
PacmanIsDetectionOnly ==
    (kind = "pacman" \/ (kind \in Kinds /\ kind \notin DOMAIN INSTALL_TEMPLATES)) =>
        /\ pc \in {"s_install", "s_ret"}
        /\ cmds = << <<"check", 1>> >>
        /\ lastOut = Unset
        /\ pc = "s_ret" => ret = "False"

\* pacman was detected and the call returned
PacmanIsDetectionOnlyWitness ==
    /\ kind = "pacman"
    /\ pc = "s_ret"
    /\ ret = "False"

\* the address the attributes give: the primary address, or when that is
\* empty the address of the first network entry
ResolveRule(a) ==
    IF a.IPAddress # "" THEN a.IPAddress
    ELSE IF a.Networks # <<>> /\ a.Networks[1] \notin {NoKey, ""} THEN a.Networks[1]
    ELSE "no address"

\* an address as its user sees it
AddressOf(ip) == IF Truthy(ip) THEN ip ELSE "no address"

\* C30: address resolution. For Verify the address is the primary address,
\* or when that is empty the one of the first network entry; an error while
\* the attributes are read gives no address and no exception; the address of
\* the record in the report follows the same rule.
AddressResolution ==
    /\ (resolved # Unset /\ attrs_read.broken) =>
          /\ ~Truthy(resolved)
          /\ pc = "s_ret"
    /\ (resolved # Unset /\ ~attrs_read.broken) =>
          AddressOf(resolved) = ResolveRule(attrs_read)
    /\ (phase = "info" /\ attrs_read # NoAttrs) =>
          AddressOf(ip_address) = ResolveRule(attrs_read)

\* in a run, the primary address was taken although the first network entry
\* has none
AddressResolutionWitness ==
    /\ caller = "fleet"
    /\ pc = "s_verify"
    /\ attrs_read = [broken |-> FALSE, IPAddress |-> "172.17.0.2", Networks |-> <<NoKey>>]
    /\ resolved = "172.17.0.2"

\* C31: ConfigureUser is idempotent: however often it has run in a container
\* for the same user and password, the container holds what one run leaves;
\* in particular the elevation grant of the user is in /etc/sudoers once.
ConfigureUserIdempotent ==
    \A t \in Names : sudoers[t] <= 1

\* C32: in the inventory the containers are grouped by package-manager kind,
\* a container whose detection found nothing is in the group docker_unknown,
\* and every group header is listed exactly once under all_docker.
InventoryGroups ==
    (pc = "done" /\ inventory # <<>>) =>
        /\ \A k \in 1..Len(containers_info) :
              \E g \in 1..Len(inventory) :
                  /\ inventory[g].group = containers_info[k].package_manager
                  /\ inventory[g].header =
                        IF containers_info[k].package_manager = None
                        THEN "docker_unknown"
                        ELSE "docker_" \o containers_info[k].package_manager
                  /\ Truthy(containers_info[k].ip_address) =>
                        \E h \in 1..Len(inventory[g].hosts) :
                            inventory[g].hosts[h] = containers_info[k].name
        /\ \A g \in 1..Len(inventory) :
              Cardinality({c \in 1..Len(all_docker_children(containers_info)) :
                  all_docker_children(containers_info)[c] = inventory[g].header}) = 1

\* C33: a CheckRunning probe that raises, exits non-zero or prints nothing
\* counts as "not running": provision goes on to detection, and it reports
\* success only after an install command was issued.
ProbeFailureIsNotRunning ==
    /\ (probe # NoProbe /\ (probe.raised \/ probe.exit_code # 0 \/ probe.output = Empty)) =>
          /\ running = "False"
          /\ pc = "d_direct" /\ phase = "setup" /\ j = 1 /\ dlog = <<>>
          /\ ret = Unset
    /\ (running = "False" /\ pc = "s_ret" /\ ret = "True") =>
          /\ Len(cmds) > 1
          /\ cmds[2][1] \in {"install", "universal"}

ProbeFailureIsNotRunningWitness ==
    /\ probe = Raised
    /\ pc = "d_direct"
    /\ target \in sshd

\* C35: every one-shot install command line ends in "|| true", so wherever
\* the shell runs the first (apt) command is accepted and the fallback returns
\* True, also when no installer is there: a later command is issued, and a
\* failure reported, only after the shell itself could not be started.
UniversalAcceptsFirst ==
    /\ \A n \in 1..Len(approaches) : approaches_or_true[n]
    /\ ulast \in {"installed", "no_installer"} =>
          /\ pc = "s_ret"
          /\ ret = "True"
          /\ cmds[Len(cmds)] = <<"universal", j>>
    /\ (pc = "s_universal" /\ j > 1) => ulast = "no_shell"
    /\ (ulast # "none" /\ pc = "s_ret" /\ ret = "False") =>
          /\ ulast = "no_shell"
          /\ j = Len(approaches)

UniversalAcceptsFirstWitness ==
    /\ ulast = "no_installer"
    /\ pc = "s_ret"
    /\ ret = "True"
    /\ cmds = << <<"check", 1>>, <<"universal", 1>> >>

\* C36: the connectivity check opens no connection and returns False for an
\* empty address; it tries the password first and the key only after an
\* authentication failure, never after another error; it never raises, and
\* returns True only if one of the two sessions was established.
ConnectivityCheck ==
    tested # NoTest =>
        /\ pc \in {"s_ret", "t_ret"}
        /\ ret \in {"True", "False"}
        /\ ~Truthy(tested.hostname) => (tested.tried = <<>> /\ ~tested.ret)
        /\ Truthy(tested.hostname) =>
              /\ tested.tried \in {<<"password">>, <<"password", "key">>}
              /\ Len(tested.seen) = 2 <=> tested.seen[1] = "auth_failed"
        /\ tested.tried = <<"password", "key">> => tested.seen[1] = "auth_failed"
        /\ tested.ret <=>
              (tested.seen # <<>> /\ tested.seen[Len(tested.seen)] = "connected")

ConnectivityCheckWitness ==
    /\ tested.seen = <<"auth_failed", "connected">>
    /\ tested.tried = <<"password", "key">>
    /\ tested.ret
    /\ pc = "s_ret"

\* C37: detect ends after a bounded number of remote commands: at most 6
\* direct probes, 6 release-file reads and 9 filesystem checks, 21 in all,
\* each issued at most once per call and in the fixed order; every step of a
\* helper loop issues the next command of that order, so none is repeated.
DetectIsBounded ==
    /\ Len(package_managers) = 6
    /\ Len(release_files) = 6
    /\ Len(config_files) + Len(dir_checks) = 9
    /\ Len(dlog) <= 21
    /\ dlog = SubSeq(AllDetectCmds, 1, Len(dlog))
    /\ pc = "d_direct"  => Len(dlog) = j - 1
    /\ pc = "d_release" => Len(dlog) = 6 + j - 1
    /\ pc = "d_image"   => Len(dlog) = 12
    /\ pc = "d_config"  => Len(dlog) = 12 + j - 1
    /\ pc = "d_dirs"    => Len(dlog) = 17 + j - 1
    /\ pc \in {"d_direct", "d_release", "d_config", "d_dirs"} => Len(dlog) < 21

DetectIsBoundedWitness ==
    /\ pc = "d_ret"
    /\ dres = None
    /\ Len(dlog) = 21

\* C25: key-copy. ssh-keygen is run only if the key pair is absent; if it
\* fails, copy_ssh_key_to_container returns False and has issued no command
\* in the container; a call that returns True has issued the four commands
\* (make the directory, append the key, fix permissions, fix ownership) in
\* order; and nothing of this depends on an earlier provision call.
KeyCopyContract ==
    /\ kgen.how \in {"ok", "failed", "raised"} => kgen.had = "absent"
    /\ kgen.how = "skipped" => kgen.had = "present"
    /\ kgen.how \in {"failed", "raised"} =>
          /\ pc = "k_ret"
          /\ ret = "False"
          /\ cmds = <<>>
    /\ (pc = "k_ret" /\ ret = "True") =>
          /\ kgen.how \in {"ok", "skipped"}
          /\ cmds = [n \in 1..Len(copy_commands) |-> <<"key", n>>]
    /\ pc \in {"k_lookup", "k_cmd"} => local_key = "present"

(***************************************************************************)
(* Properties of a run of prepare_all_containers.                          *)
(***************************************************************************)

\* the number of True returns of setup_ssh_in_container in the run so far
SuccessCount ==
    Cardinality({k \in 1..Len(outcomes) : outcomes[k] = "True"})

\* C34: in a run, copy_ssh_key_to_container is called for a container exactly
\* when setup_ssh_in_container returned True for it, and after that call; the
\* count of containers with SSH is the number of True returns; the run returns
\* True iff the count is positive, and False without an inventory when no
\* container record was collected.
KeyCopyFollowsSuccess ==
    /\ (caller = "fleet" /\ pc \in {"k_copy", "k_gen", "k_lookup", "k_cmd", "k_ret", "k_raise"}) =>
          /\ Len(outcomes) = i
          /\ outcomes[i] = "True"
          /\ success_count = SuccessCount - 1
          /\ pc # "k_copy" => target = containers_info[i].name
    /\ pc \in {"p_loop", "p_finish"} =>
          /\ Len(outcomes) = i - 1
          /\ success_count = SuccessCount
    /\ pc = "done" =>
          IF containers_info = <<>>
          THEN run_ret = "False" /\ inventory = <<>> /\ outcomes = <<>>
          ELSE /\ Len(outcomes) = Len(containers_info)
               /\ success_count = SuccessCount
               /\ run_ret = "True" <=> success_count > 0
               /\ run_ret \in {"True", "False"}

KeyCopyFollowsSuccessWitness ==
    /\ pc = "done"
    /\ outcomes = <<"True", "False">>
    /\ success_count = 1
    /\ run_ret = "True"

\* C23: containers are processed strictly one after the other, each with its
\* detection followed by its provisioning: between a detection command and a
\* later provisioning command of one container, no remote command goes to
\* another container.
StrictlySequential ==
    \A a, b, c \in DOMAIN touched :
        (/\ a < b /\ b < c
         /\ touched[a][2] = "detect"
         /\ touched[c][2] = "provision"
         /\ touched[a][1] = touched[c][1]) => touched[b][1] = touched[a][1]
\* the records of the report that carry a given name
RecordsOf(n) == {k \in 1..Len(containers_info) : containers_info[k].name = n}

\* C7: every requested target has exactly one record in the report of a
\* finished run (stated for the runs in which no lookup raised an error).
OneRecordPerTarget ==
    (pc = "done" /\ \A k \in 1..Len(lookups) : lookups[k] \in {"ok", "NotFound"}) =>
        \A k \in 1..Len(names) : Cardinality(RecordsOf(names[k])) = 1

\* C8: a failure while one target is processed stays with that target: the
\* run never dies of it, and when the run is over every requested name has
\* had its turn.
FailuresStayLocal ==
    /\ pc # "crashed"
    /\ pc = "done" => Len(lookups) = Len(names)

\* get_container_info has returned
InfoOver ==
    \/ pc \in {"p_check", "p_loop", "p_finish", "k_copy", "done", "crashed"}
    \/ caller = "fleet"

\* the requested names whose turn in get_container_info went as given
NamesWith(how) ==
    LET idx == [k \in 1..Len(lookups) |-> k]
        Test(k) == lookups[k] = how
        sel == SelectSeq(idx, Test)
    IN [k \in 1..Len(sel) |-> names[sel[k]]]

\* C9: a requested target that is not found is reported and skipped, and is
\* not fatal. When nothing but not-found lookups went wrong, the loop went
\* through every requested name, every name not found has its warning, every
\* other name has its record with a detected kind, in the order asked, and a
\* finished run has handed every record to setup_ssh_in_container.
NotFoundIsSkipped ==
    (InfoOver /\ \A k \in 1..Len(lookups) : lookups[k] \in {"ok", "NotFound"}) =>
        /\ Len(lookups) = Len(names)
        /\ warnings = NamesWith("NotFound")
        /\ [k \in 1..Len(containers_info) |-> containers_info[k].name] = NamesWith("ok")
        /\ (pc = "done" /\ containers_info # <<>>) => i = Len(containers_info) + 1

\* the first requested target was not found; the second was found, detected
\* and provisioned, and the run finished with one container with SSH
NotFoundIsSkippedWitness ==
    /\ pc = "done"
    /\ lookups = <<"NotFound", "ok">>
    /\ Len(containers_info) = 1
    /\ success_count = 1
    /\ run_ret = "True"

\* the host lines of the inventory, as <<group index, line index>>
HostLines ==
    UNION {{<<g, h>> : h \in 1..Len(inventory[g].hosts)} : g \in 1..Len(inventory)}

\* C17: in the inventory of a finished run every target for which
\* setup_ssh_in_container returned True and whose record has an address has
\* exactly one host line, hence is in exactly one group.
InventoryListsOnce ==
    (pc = "done" /\ inventory # <<>>) =>
        \A k \in 1..Len(containers_info) :
            (outcomes[k] = "True" /\ Truthy(containers_info[k].ip_address)) =>
                Cardinality({l \in HostLines :
                    inventory[l[1]].hosts[l[2]] = containers_info[k].name}) = 1

\* C10: one kind per target and pass. The kind setup_ssh_in_container works
\* with is the kind recorded for the target in the report.
OneKindPerPass ==
    (caller = "fleet" /\ kind # Unset) =>
        kind = containers_info[i].package_manager

====
